---- MODULE Spec2Model ----
(***************************************************************************)
(* Model of the task consolidation engine of gmail-agent:                  *)
(*   taskService  (src/unnamed/part_003)  in-memory index, clustering,     *)
(*                                         parent synthesis, propagation   *)
(*   dbService    (src/unnamed/part_000)  durable store event handlers     *)
(*   aiService    (src/unnamed/part_005)  pairwise comparator              *)
(*                                                                         *)
(* Strings are sequences of one-character strings.  Scores are rationals   *)
(* <<numerator, denominator>>.  Task ids are naturals; 0 stands for an     *)
(* absent (undefined / null) id.                                           *)
(***************************************************************************)
EXTENDS Integers, Sequences, FiniteSets, TLC

VARIABLES
    tasks,      \* taskService.tasks: id -> task object (the in-memory index)
    allTasks,   \* the task objects of the extraction results (flatMap of r.tasks)
    pc,         \* position of the running operation
    idx,        \* loop index of the running operation
    run,        \* number of the pass over the same extraction results
    before,     \* the index as it was when the first pass started
    after1,     \* the index as it was when the first pass finished
    similarityCache, \* taskService.similarityCache: cache key -> score
    similarities,    \* groupSimilarTasks: the local map cache key -> score
    comparisons,     \* groupSimilarTasks: the comparisons of the current anchor
    offset,          \* groupSimilarTasks: start of the next batch in comparisons
    calls,           \* groupSimilarTasks: the comparator calls of the batch in flight
    groups,          \* the clusters, each a sequence of positions in allTasks
    nextId,          \* the next fresh id createTask generates
    answers,         \* the scores the comparator returns in this behaviour
    compareFailed,   \* a comparator call has rejected
    db,              \* dbService: the rows of the tasks table, in insertion order
    created,         \* the task data of the createTask calls, in call order
    nCreated,        \* the number of createTask calls made so far
    hpc,             \* handleTaskCreated: the position of the handler of each call
    houtcome,        \* handleTaskCreated: what the handler of each call did
    str1,            \* compareTaskSimilarity: task1Description
    str2,            \* compareTaskSimilarity: task2Description
    cpc,             \* compareTaskSimilarity: position
    classifierCalls, \* the number of this.model.invoke calls made
    response,        \* how this.model.invoke ended
    result,          \* compareTaskSimilarity: the value it resolved with
    other,           \* a second groupSimilarTasks pass in flight: its local state
    deadlines,       \* getEarliestDeadline: the deadlines of the tasks it is given
    earliest,        \* getEarliestDeadline: how it ended and what it returned
    extracted,       \* extractTasksFromEmail: what became of each analysed task
    events,          \* the events taskService has emitted, in order
    mails,           \* the emailService.sendResponse calls made, in order
    lastCall,        \* the last call of a public operation and how it ended
    inbox,           \* extractTasksFromEmails: the emails of the run in flight
    isProcessingEmails, \* index.js: the module variable of the same name
    runs,            \* the processEmails(true) calls made, each running or over
    commands         \* the user's commands: issued, and start handlers in flight

prioVars == <<run, before, after1>>

groupVars == <<similarityCache, similarities, comparisons, offset, calls, groups,
               answers, compareFailed>>

dbVars == <<db, created, nCreated, hpc, houtcome>>

cmpVars == <<str1, str2, cpc, classifierCalls, response, result>>

\* the state of the operations that are modelled on their own
procVars == <<isProcessingEmails, runs, commands>>

apiVars == <<events, mails, lastCall, inbox, procVars>>

sideVars == <<other, deadlines, earliest, extracted, apiVars>>

vars == <<tasks, allTasks, pc, idx, prioVars, groupVars, nextId, dbVars, cmpVars,
          sideVars>>

(***************************************************************************)
(* Bounds                                                                  *)
(***************************************************************************)
MaxPrioTasks == 3

MaxGroupTasks == 3

MaxOptTasks == 3

MaxDescLen == 2

MaxStrLen == 2

MaxOverlapTasks == 2

MaxDeadlines == 3

MaxTime == 2

MaxExtracted == 2

MaxDoneTasks == 2

MaxBatchTasks == 7

MaxFallbackTasks == 3

MaxWords == 6

MaxCalls == 3

MaxEmails == 3

MaxEmailTasks == 6

MaxRepeatTasks == 3

MaxUpdates == 2

MaxCommands == 4

NoId == 0

Priorities == {"HIGH", "MEDIUM", "LOW"}

(***************************************************************************)
(* Task objects                                                            *)
(***************************************************************************)
NewTask(id, description, priority, dependencies) ==
    [id |-> id, description |-> description, priority |-> priority,
     dependencies |-> dependencies, status |-> "PENDING", threadId |-> 1,
     parentTaskId |-> NoId, isSubtask |-> FALSE, isParent |-> FALSE,
     childTaskIds |-> <<>>]

\* the extraction results of n tasks, with ids 1..n in order
RECURSIVE Batches(_, _, _, _)
Batches(n, descriptions, priorities, dependencies) ==
    IF n = 0 THEN {<<>>}
    ELSE {Append(b, NewTask(n, d, p, deps)) :
            b \in Batches(n - 1, descriptions, priorities, dependencies),
            d \in descriptions, p \in priorities, deps \in dependencies}

\* the index after the tasks were created: createTask stores the very object
\* it returns
IndexOf(all) == [id \in {all[k].id : k \in 1..Len(all)} |->
                    all[CHOOSE k \in 1..Len(all) : all[k].id = id]]

\* {...task, ...updatedData}: the fields of updatedData win
Spread(task, updatedData) ==
    [f \in (DOMAIN task) \cup (DOMAIN updatedData) |->
        IF f \in DOMAIN updatedData THEN updatedData[f] ELSE task[f]]

\* updateTask for a task that is in the index: a NEW object is stored
updateTask(ts, taskId, updatedData) ==
    [ts EXCEPT ![taskId] = Spread(@, updatedData)]

(***************************************************************************)
(* Scores                                                                  *)
(***************************************************************************)
Score(n, d) == <<n, d>>

\* a > b for rationals with positive denominators
Greater(a, b) == a[1] * b[2] > b[1] * a[2]

NoScores == [k \in {} |-> Score(0, 1)]

\* groupSimilarTasks is not running
GroupIdle ==
    /\ similarityCache = NoScores
    /\ similarities = NoScores
    /\ comparisons = <<>>
    /\ offset = 1
    /\ calls = <<>>
    /\ groups = <<>>
    /\ answers = {}
    /\ compareFailed = FALSE

(***************************************************************************)
(* Strings and JavaScript values                                           *)
(***************************************************************************)
Chars == {"a", "A", " ", "."}

\* the strings of at most n characters
Strings(n) == UNION {[1..m -> Chars] : m \in 0..n}

JsString(chars) == [type |-> "string", chars |-> chars]

\* a value that is no string and is truthy, e.g. a number
JsNumber == [type |-> "number", chars |-> <<>>]

JsUndefined == [type |-> "undefined", chars |-> <<>>]

isSpace(c) == c = " "

\* \w
isWord(c) == c \in {"a", "A"}

lowerChar(c) == IF c = "A" THEN "a" ELSE c

\* String.prototype.toLowerCase
toLowerCase(s) == [i \in 1..Len(s) |-> lowerChar(s[i])]

RECURSIVE trimStart(_)
trimStart(s) ==
    IF s # <<>> /\ isSpace(s[1]) THEN trimStart(Tail(s)) ELSE s

RECURSIVE trimEnd(_)
trimEnd(s) ==
    IF s # <<>> /\ isSpace(s[Len(s)]) THEN trimEnd(SubSeq(s, 1, Len(s) - 1)) ELSE s

\* String.prototype.trim
trim(s) == trimEnd(trimStart(s))

\* str.replace(/[^\w\s]/g, "")
stripPunctuation(s) == SelectSeq(s, LAMBDA c : isWord(c) \/ isSpace(c))

\* str.split(/\s+/) from character i on; cur is the token being read, inSep
\* tells that the previous character was whitespace
RECURSIVE splitFrom(_, _, _, _, _)
splitFrom(s, i, cur, acc, inSep) ==
    IF i > Len(s) THEN Append(acc, cur)
    ELSE IF isSpace(s[i])
    THEN IF inSep THEN splitFrom(s, i + 1, cur, acc, TRUE)
         ELSE splitFrom(s, i + 1, <<>>, Append(acc, cur), TRUE)
    ELSE splitFrom(s, i + 1, Append(cur, s[i]), acc, FALSE)

splitDropEmpty(s) == SelectSeq(splitFrom(s, 1, <<>>, <<>>, FALSE), LAMBDA w : w # <<>>)

split(s) == splitFrom(s, 1, <<>>, <<>>, FALSE)

\* no createTask call was made and no handler runs
DbIdle ==
    /\ db = <<>>
    /\ created = <<>>
    /\ nCreated = 0
    /\ hpc = <<>>
    /\ houtcome = <<>>

\* compareTaskSimilarity is not running
CmpIdle ==
    /\ str1 = JsUndefined
    /\ str2 = JsUndefined
    /\ cpc = "idle"
    /\ classifierCalls = 0
    /\ response = "none"
    /\ result = Score(0, 1)

\* the local state of a groupSimilarTasks pass that has not started
NoPass == [pc |-> "idle", all |-> <<>>, idx |-> 1, similarities |-> NoScores,
           comparisons |-> <<>>, offset |-> 1, calls |-> <<>>, groups |-> <<>>]

\* null
JsNull == [type |-> "null", chars |-> <<>>]

\* getEarliestDeadline is not running
DeadlineIdle ==
    /\ deadlines = <<>>
    /\ earliest = [state |-> "idle", value |-> JsNull]

\* no public operation was called
NoCall == [op |-> "none", n |-> 0]

\* no command was given and no email is processed
NoCommands == [issued |-> 0, starting |-> 0]

ProcIdle ==
    /\ isProcessingEmails = FALSE
    /\ runs = <<>>
    /\ commands = NoCommands

\* nothing was emitted or sent and no extraction run is in flight
ApiIdle ==
    /\ events = <<>>
    /\ mails = <<>>
    /\ lastCall = NoCall
    /\ inbox = <<>>
    /\ ProcIdle

\* no second pass, no getEarliestDeadline call and no extraction is running
SideIdle ==
    /\ other = NoPass
    /\ DeadlineIdle
    /\ extracted = <<>>
    /\ ApiIdle

(***************************************************************************)
(* Priority propagation                                                    *)
(***************************************************************************)
priorityMap == [HIGH |-> 0, MEDIUM |-> 1, LOW |-> 2]

\* priorityMap[priority] || 3 : a value of 0 is falsy, so is a missing key
getPriorityValue(priority) ==
    IF priority \in DOMAIN priorityMap /\ priorityMap[priority] # 0
    THEN priorityMap[priority]
    ELSE 3

\* task.dependencies.includes(t.description)
Includes(seq, x) == \E k \in 1..Len(seq) : seq[k] = x

readTaskFromIndex(all, ts, k) == ts[all[k].id]

\* the object the loop of prioritizeTasks reads for position k: the object of
\* the extraction results, which updateTask never mutates
readTask(all, ts, k) == all[k]

\* the inner loop over dependentTasks, from position k of allTasks on
RECURSIVE escalateDeps(_, _, _, _)
escalateDeps(all, ts, t, k) ==
    IF k > Len(all) THEN ts
    ELSE LET task    == readTask(all, ts, t)
             depTask == readTask(all, ts, k)
         IN  IF /\ Includes(task.dependencies, depTask.description)
                /\ getPriorityValue(depTask.priority) > getPriorityValue(task.priority)
             THEN escalateDeps(all,
                     updateTask(ts, depTask.id, [depTask EXCEPT !.priority = task.priority]),
                     t, k + 1)
             ELSE escalateDeps(all, ts, t, k + 1)

\* one iteration of the outer loop of prioritizeTasks
PrioritizeTask ==
    /\ pc = "prioritize"
    /\ idx <= Len(allTasks)
    /\ tasks' = IF Len(readTask(allTasks, tasks, idx).dependencies) > 0
                THEN escalateDeps(allTasks, tasks, idx, 1)
                ELSE tasks
    /\ idx' = idx + 1
    /\ UNCHANGED <<dbVars, cmpVars, sideVars, allTasks, pc, prioVars, groupVars, nextId>>

\* prioritizeTasks returns
PrioritizeReturn ==
    /\ pc = "prioritize"
    /\ idx > Len(allTasks)
    /\ pc' = "done"
    /\ after1' = IF run = 1 THEN tasks ELSE after1
    /\ UNCHANGED <<dbVars, cmpVars, sideVars, tasks, allTasks, idx, run, before, groupVars, nextId>>

\* prioritizeTasks is called again with the same extraction results
PrioritizeAgain ==
    /\ pc = "done"
    /\ run = 1
    /\ run' = 2
    /\ idx' = 1
    /\ pc' = "prioritize"
    /\ UNCHANGED <<dbVars, cmpVars, sideVars, tasks, allTasks, before, after1, groupVars, nextId>>

PrioDescriptions == {<<"a">>, <<"b">>}

PrioDependencies == {<<>>} \cup {<<d>> : d \in PrioDescriptions}

InitPrio ==
    /\ allTasks \in UNION {Batches(n, PrioDescriptions, Priorities, PrioDependencies) :
                              n \in 1..MaxPrioTasks}
    /\ tasks = IndexOf(allTasks)
    /\ pc = "prioritize"
    /\ idx = 1
    /\ run = 1
    /\ before = tasks
    /\ after1 = tasks
    /\ GroupIdle
    /\ nextId = Len(allTasks) + 1
    /\ DbIdle
    /\ CmpIdle
    /\ SideIdle

NextPrio == PrioritizeTask \/ PrioritizeReturn \/ PrioritizeAgain

SpecPrio == InitPrio /\ [][NextPrio]_vars

(***************************************************************************)
(* Clustering: groupSimilarTasks                                           *)
(***************************************************************************)
batchSizeOfAll == Len(comparisons) + 1

\* const batchSize = 5
batchSize == 5

\* [taskId1, taskId2].sort().join("_"): the two ids in ascending order
getSimilarityCacheKeyInOrder(taskId1, taskId2) == <<taskId1, taskId2>>

getSimilarityCacheKey(taskId1, taskId2) ==
    IF taskId1 <= taskId2 THEN <<taskId1, taskId2>> ELSE <<taskId2, taskId1>>

\* Map.set
MapSet(map, key, value) ==
    [k \in (DOMAIN map) \cup {key} |-> IF k = key THEN value ELSE map[k]]

Positions(all) == [k \in 1..Len(all) |-> k]

\* the inner loop over j of the first phase: the pairs to ask the comparator
\* about.  processed is processedTasks, which nothing adds to in this phase.
comparisonsOf(all, i, cache, processed) ==
    LET js == SelectSeq(Positions(all),
                 LAMBDA j : /\ j > i
                            /\ all[j].id \notin processed
                            /\ getSimilarityCacheKey(all[i].id, all[j].id)
                                   \notin DOMAIN cache)
    IN  [m \in 1..Len(js) |->
            [task |-> i, otherTask |-> js[m],
             cacheKey |-> getSimilarityCacheKey(all[i].id, all[js[m]].id)]]

\* the same loop: the cached scores are copied to the local map
copyCached(all, i, cache, sims, processed) ==
    LET keys == {getSimilarityCacheKey(all[i].id, all[j].id) :
                    j \in {j \in (i + 1)..Len(all) : all[j].id \notin processed}}
                \cap DOMAIN cache
    IN  [k \in (DOMAIN sims) \cup keys |-> IF k \in keys THEN cache[k] ELSE sims[k]]

\* results.forEach(...): every result of the batch is stored, in order
RECURSIVE storeResults(_, _, _)
storeResults(map, results, m) ==
    IF m > Len(results) THEN map
    ELSE storeResults(MapSet(map, results[m].cacheKey, results[m].similarity),
                      results, m + 1)

isSimilarAtThreshold(similarity) == ~ Greater(Score(8, 10), similarity)

\* similarity > 0.8
isSimilar(similarity) == Greater(similarity, Score(8, 10))

\* the second phase: the grouping loop, from position k on
RECURSIVE buildGroups(_, _, _, _, _)
buildGroups(all, sims, k, processed, acc) ==
    IF k > Len(all) THEN acc
    ELSE IF all[k].id \in processed
    THEN buildGroups(all, sims, k + 1, processed, acc)
    ELSE LET similarTasks ==
                 SelectSeq(Positions(all),
                     LAMBDA m :
                        /\ all[m].id # all[k].id
                        /\ all[m].id \notin processed
                        /\ getSimilarityCacheKey(all[k].id, all[m].id) \in DOMAIN sims
                        /\ isSimilar(sims[getSimilarityCacheKey(all[k].id, all[m].id)]))
         IN  buildGroups(all, sims, k + 1,
                 processed \cup {all[k].id}
                           \cup {all[similarTasks[m]].id : m \in 1..Len(similarTasks)},
                 Append(acc, <<k>> \o similarTasks))

\* groupSimilarTasks is entered
GroupStart ==
    /\ pc = "start"
    /\ similarities' = NoScores
    /\ groups' = <<>>
    /\ idx' = 1
    /\ pc' = "anchor"
    /\ UNCHANGED <<dbVars, cmpVars, sideVars, tasks, allTasks, prioVars, similarityCache, comparisons, offset,
                   calls, answers, compareFailed, nextId>>

\* first phase, one anchor: the comparisons it needs are collected
GroupAnchor ==
    /\ pc = "anchor"
    /\ idx <= Len(allTasks)
    /\ comparisons' = comparisonsOf(allTasks, idx, similarityCache, {})
    /\ similarities' = copyCached(allTasks, idx, similarityCache, similarities, {})
    /\ offset' = 1
    /\ pc' = "batch"
    /\ UNCHANGED <<dbVars, cmpVars, sideVars, tasks, allTasks, idx, prioVars, similarityCache, calls, groups,
                   answers, compareFailed, nextId>>

\* the comparator calls of the next batch are started together
GroupBatchStart ==
    /\ pc = "batch"
    /\ offset <= Len(comparisons)
    /\ LET last == IF offset + batchSize - 1 < Len(comparisons)
                   THEN offset + batchSize - 1 ELSE Len(comparisons)
       IN  calls' = [m \in 1..(last - offset + 1) |->
                        [cacheKey |-> comparisons[offset + m - 1].cacheKey,
                         state |-> "pending", similarity |-> Score(0, 1)]]
    /\ pc' = "await"
    /\ UNCHANGED <<dbVars, cmpVars, sideVars, tasks, allTasks, idx, prioVars, similarityCache, similarities,
                   comparisons, offset, groups, answers, compareFailed, nextId>>

\* aiService.compareTaskSimilarity resolves for one call of the batch
CompareResolve ==
    /\ pc = "await"
    /\ \E m \in 1..Len(calls), s \in answers :
        /\ calls[m].state = "pending"
        /\ calls' = [calls EXCEPT ![m] = [@ EXCEPT !.state = "resolved",
                                                   !.similarity = s]]
    /\ UNCHANGED <<dbVars, cmpVars, sideVars, tasks, allTasks, pc, idx, prioVars, similarityCache, similarities,
                   comparisons, offset, groups, answers, compareFailed, nextId>>

\* aiService.compareTaskSimilarity rejects for one call: Promise.all rejects
\* and control passes to the catch block of groupSimilarTasks
CompareReject ==
    /\ pc = "await"
    /\ \E m \in 1..Len(calls) : calls[m].state = "pending"
    /\ compareFailed' = TRUE
    /\ pc' = "catch"
    /\ UNCHANGED <<dbVars, cmpVars, sideVars, tasks, allTasks, idx, prioVars, similarityCache, similarities,
                   comparisons, offset, calls, groups, answers, nextId>>

\* the catch block evaluates allTasks.map(...); allTasks is a const of the
\* try block and is not in scope here, so a ReferenceError is thrown and
\* groupSimilarTasks rejects
GroupCatch ==
    /\ pc = "catch"
    /\ pc' = "rejected"
    /\ UNCHANGED <<dbVars, cmpVars, sideVars, tasks, allTasks, idx, prioVars, groupVars, nextId>>

\* every call of the batch has resolved: the results are stored
GroupBatchDone ==
    /\ pc = "await"
    /\ \A m \in 1..Len(calls) : calls[m].state = "resolved"
    /\ similarityCache' = storeResults(similarityCache, calls, 1)
    /\ similarities' = storeResults(similarities, calls, 1)
    /\ offset' = offset + batchSize
    /\ calls' = <<>>
    /\ pc' = "batch"
    /\ UNCHANGED <<dbVars, cmpVars, sideVars, tasks, allTasks, idx, prioVars, comparisons, groups, answers,
                   compareFailed, nextId>>

\* the batches of the anchor are done: next anchor
GroupNextAnchor ==
    /\ pc = "batch"
    /\ offset > Len(comparisons)
    /\ idx' = idx + 1
    /\ pc' = "anchor"
    /\ UNCHANGED <<dbVars, cmpVars, sideVars, tasks, allTasks, prioVars, groupVars, nextId>>

\* second phase: the groups are built and groupSimilarTasks resolves
GroupBuild ==
    /\ pc = "anchor"
    /\ idx > Len(allTasks)
    /\ groups' = buildGroups(allTasks, similarities, 1, {}, <<>>)
    /\ pc' = "grouped"
    /\ UNCHANGED <<dbVars, cmpVars, sideVars, tasks, allTasks, idx, prioVars, similarityCache, similarities,
                   comparisons, offset, calls, answers, compareFailed, nextId>>

NextGroup ==
    \/ GroupStart
    \/ GroupAnchor
    \/ GroupBatchStart
    \/ CompareResolve
    \/ CompareReject
    \/ GroupCatch
    \/ GroupBatchDone
    \/ GroupNextAnchor
    \/ GroupBuild

(***************************************************************************)
(* Parent synthesis and optimizeTaskList                                   *)
(***************************************************************************)
\* the accumulator of the reduce in getHighestPriority
RECURSIVE reduceHighest(_, _, _)
reduceHighest(ts, m, highest) ==
    IF m > Len(ts) THEN highest
    ELSE reduceHighest(ts, m + 1,
            IF getPriorityValue(ts[m].priority) < getPriorityValue(highest)
            THEN ts[m].priority
            ELSE highest)

getHighestPriority(ts) == reduceHighest(ts, 1, "LOW")

\* createTask for task data without an id: stored under a fresh id
createTask(ts, id, taskData) ==
    [k \in (DOMAIN ts) \cup {id} |->
        IF k = id THEN [taskData EXCEPT !.id = id] ELSE ts[k]]

parentTaskDataFromFirst(taskGroup) ==
    [taskGroup[1] EXCEPT
        !.id = NoId, !.description = <<"p">>,
        !.priority = getHighestPriority(taskGroup), !.isParent = TRUE,
        !.childTaskIds = [m \in 1..Len(taskGroup) |-> taskGroup[m].id]]

\* the task data createParentTask passes to createTask
parentTaskData(taskGroup) ==
    [NewTask(NoId, <<"p">>, getHighestPriority(taskGroup), <<>>)
        EXCEPT !.isParent = TRUE,
               !.childTaskIds = [m \in 1..Len(taskGroup) |-> taskGroup[m].id]]

\* task.parentTaskId = parentTask.id; task.isSubtask = true
linked(task, parentId) ==
    [task EXCEPT !.parentTaskId = parentId, !.isSubtask = TRUE]

linkFirstOnly(ts, all, group, parentId, m) ==
    updateTask(ts, all[group[1]].id, linked(all[group[1]], parentId))

\* for (const task of group) { ...; await this.updateTask(task.id, task) }
RECURSIVE linkIndex(_, _, _, _, _)
linkIndex(ts, all, group, parentId, m) ==
    IF m > Len(group) THEN ts
    ELSE linkIndex(updateTask(ts, all[group[m]].id, linked(all[group[m]], parentId)),
                   all, group, parentId, m + 1)

\* optimizeTaskList is called with the extraction results
OptimizeStart ==
    /\ pc = "idle"
    /\ pc' = "start"
    /\ UNCHANGED <<dbVars, cmpVars, sideVars, tasks, allTasks, idx, prioVars, groupVars, nextId>>

\* groupSimilarTasks has resolved: the loop over the groups starts
OptimizeGroups ==
    /\ pc = "grouped"
    /\ idx' = 1
    /\ pc' = "link"
    /\ UNCHANGED <<dbVars, cmpVars, sideVars, tasks, allTasks, prioVars, groupVars, nextId>>

\* one group of the loop: a group of two or more gets a parent task, and
\* every member is marked as its subtask and updated in the index
OptimizeGroup ==
    /\ pc = "link"
    /\ idx <= Len(groups)
    /\ LET group == groups[idx]
           taskGroup == [m \in 1..Len(group) |-> allTasks[group[m]]]
       IN  IF Len(group) > 1
           THEN /\ allTasks' = [k \in 1..Len(allTasks) |->
                                   IF Includes(group, k)
                                   THEN linked(allTasks[k], nextId)
                                   ELSE allTasks[k]]
                /\ tasks' = linkIndex(createTask(tasks, nextId, parentTaskData(taskGroup)),
                                      allTasks, group, nextId, 1)
                /\ nextId' = nextId + 1
           ELSE UNCHANGED <<allTasks, tasks, nextId>>
    /\ idx' = idx + 1
    /\ UNCHANGED <<dbVars, cmpVars, sideVars, pc, prioVars, groupVars>>

\* the loop over the groups is over: prioritizeTasks is called
OptimizePrioritize ==
    /\ pc = "link"
    /\ idx > Len(groups)
    /\ idx' = 1
    /\ pc' = "prioritize"
    /\ UNCHANGED <<dbVars, cmpVars, sideVars, tasks, allTasks, prioVars, groupVars, nextId>>

\* optimizeTaskList is called again with the same extraction results
OptimizeAgain ==
    /\ pc = "done"
    /\ run = 1
    /\ run' = 2
    /\ pc' = "start"
    /\ UNCHANGED <<dbVars, cmpVars, sideVars, tasks, allTasks, idx, before, after1, groupVars, nextId>>

NextOpt ==
    \/ OptimizeStart
    \/ NextGroup
    \/ OptimizeGroups
    \/ OptimizeGroup
    \/ OptimizePrioritize
    \/ PrioritizeTask
    \/ PrioritizeReturn
    \/ OptimizeAgain

InitRun ==
    /\ tasks = IndexOf(allTasks)
    /\ pc = "idle"
    /\ idx = 1
    /\ run = 1
    /\ before = tasks
    /\ after1 = tasks
    /\ similarityCache = NoScores
    /\ similarities = NoScores
    /\ comparisons = <<>>
    /\ offset = 1
    /\ calls = <<>>
    /\ groups = <<>>
    /\ compareFailed = FALSE
    /\ nextId = Len(allTasks) + 1
    /\ DbIdle
    /\ CmpIdle
    /\ SideIdle

\* clustering alone: tasks that differ in nothing but their id
InitGroup ==
    /\ allTasks \in UNION {Batches(n, {<<"a">>}, {"MEDIUM"}, {<<>>}) :
                              n \in 1..MaxGroupTasks}
    /\ answers = {Score(5, 10), Score(8, 10), Score(9, 10)}
    /\ InitRun

SpecGroup == InitGroup /\ [][NextOpt]_vars

\* the whole of optimizeTaskList
InitOpt ==
    /\ allTasks \in UNION {Batches(n, PrioDescriptions, Priorities, {<<>>, <<<<"a">>>>}) :
                              n \in 1..MaxOptTasks}
    /\ answers = {Score(5, 10), Score(9, 10)}
    /\ InitRun

SpecOpt == InitOpt /\ [][NextOpt]_vars

\* clustering of enough tasks for an anchor to need more than one batch; the
\* comparator gives one score
InitBatch ==
    /\ allTasks \in UNION {Batches(n, {<<"a">>}, {"MEDIUM"}, {<<>>}) :
                              n \in 1..MaxBatchTasks}
    /\ answers = {Score(5, 10)}
    /\ InitRun

NextBatch == OptimizeStart \/ NextGroup

SpecBatch == InitBatch /\ [][NextBatch]_vars

\* the extraction results after updateTaskStatus has run for some of their
\* tasks: task.status = status on the objects the index and the results share
withStatus(all, statuses) ==
    [k \in 1..Len(all) |-> [all[k] EXCEPT !.status = statuses[k]]]

\* optimizeTaskList over extraction results some tasks of which were completed
\* since they were extracted
InitDone ==
    /\ allTasks \in UNION {{withStatus(all, statuses) :
                                all \in Batches(n, PrioDescriptions, Priorities,
                                                {<<>>, <<<<"a">>>>}),
                                statuses \in [1..n -> {"PENDING", "COMPLETED"}]} :
                              n \in 1..MaxDoneTasks}
    /\ answers = {Score(5, 10), Score(9, 10)}
    /\ InitRun

SpecDone == InitDone /\ [][NextOpt]_vars

(***************************************************************************)
(* Two groupSimilarTasks passes in flight over the one similarityCache      *)
(***************************************************************************)
\* the first batchSize comparisons from position from on: slice(j, j + batchSize)
batchOf(comps, from) ==
    LET last == IF from + batchSize - 1 < Len(comps)
                THEN from + batchSize - 1 ELSE Len(comps)
    IN  [m \in 1..(last - from + 1) |->
            [cacheKey |-> comps[from + m - 1].cacheKey,
             state |-> "pending", similarity |-> Score(0, 1)]]

\* the second pass is entered
OtherStart ==
    /\ other.pc = "idle"
    /\ other' = [other EXCEPT !.pc = "anchor", !.idx = 1,
                              !.similarities = NoScores, !.groups = <<>>]
    /\ UNCHANGED <<dbVars, cmpVars, tasks, allTasks, pc, idx, prioVars, groupVars, nextId,
                   deadlines, earliest, extracted, apiVars>>

\* the second pass, first phase, one anchor
OtherAnchor ==
    /\ other.pc = "anchor"
    /\ other.idx <= Len(other.all)
    /\ other' = [other EXCEPT
                    !.comparisons = comparisonsOf(other.all, other.idx, similarityCache, {}),
                    !.similarities = copyCached(other.all, other.idx, similarityCache,
                                                other.similarities, {}),
                    !.offset = 1,
                    !.pc = "batch"]
    /\ UNCHANGED <<dbVars, cmpVars, tasks, allTasks, pc, idx, prioVars, groupVars, nextId,
                   deadlines, earliest, extracted, apiVars>>

\* the second pass starts the comparator calls of its next batch
OtherBatchStart ==
    /\ other.pc = "batch"
    /\ other.offset <= Len(other.comparisons)
    /\ other' = [other EXCEPT !.calls = batchOf(other.comparisons, other.offset),
                              !.pc = "await"]
    /\ UNCHANGED <<dbVars, cmpVars, tasks, allTasks, pc, idx, prioVars, groupVars, nextId,
                   deadlines, earliest, extracted, apiVars>>

\* a comparator call of the second pass resolves
OtherResolve ==
    /\ other.pc = "await"
    /\ \E m \in 1..Len(other.calls), s \in answers :
        /\ other.calls[m].state = "pending"
        /\ other' = [other EXCEPT !.calls[m] = [@ EXCEPT !.state = "resolved",
                                                         !.similarity = s]]
    /\ UNCHANGED <<dbVars, cmpVars, tasks, allTasks, pc, idx, prioVars, groupVars, nextId,
                   deadlines, earliest, extracted, apiVars>>

\* a comparator call of the second pass rejects: its catch block throws the
\* ReferenceError and the pass rejects
OtherReject ==
    /\ other.pc = "await"
    /\ \E m \in 1..Len(other.calls) : other.calls[m].state = "pending"
    /\ other' = [other EXCEPT !.pc = "rejected"]
    /\ UNCHANGED <<dbVars, cmpVars, tasks, allTasks, pc, idx, prioVars, groupVars, nextId,
                   deadlines, earliest, extracted, apiVars>>

\* every call of the batch of the second pass has resolved: the results are
\* stored in the shared cache and in the local map
OtherBatchDone ==
    /\ other.pc = "await"
    /\ \A m \in 1..Len(other.calls) : other.calls[m].state = "resolved"
    /\ similarityCache' = storeResults(similarityCache, other.calls, 1)
    /\ other' = [other EXCEPT !.similarities = storeResults(@, other.calls, 1),
                              !.offset = @ + batchSize,
                              !.calls = <<>>,
                              !.pc = "batch"]
    /\ UNCHANGED <<dbVars, cmpVars, tasks, allTasks, pc, idx, prioVars, similarities,
                   comparisons, offset, calls, groups, answers, compareFailed, nextId,
                   deadlines, earliest, extracted, apiVars>>

\* the second pass goes to its next anchor
OtherNextAnchor ==
    /\ other.pc = "batch"
    /\ other.offset > Len(other.comparisons)
    /\ other' = [other EXCEPT !.idx = @ + 1, !.pc = "anchor"]
    /\ UNCHANGED <<dbVars, cmpVars, tasks, allTasks, pc, idx, prioVars, groupVars, nextId,
                   deadlines, earliest, extracted, apiVars>>

\* the second pass builds its groups and resolves
OtherBuild ==
    /\ other.pc = "anchor"
    /\ other.idx > Len(other.all)
    /\ other' = [other EXCEPT
                    !.groups = buildGroups(other.all, other.similarities, 1, {}, <<>>),
                    !.pc = "grouped"]
    /\ UNCHANGED <<dbVars, cmpVars, tasks, allTasks, pc, idx, prioVars, groupVars, nextId,
                   deadlines, earliest, extracted, apiVars>>

NextOther ==
    \/ OtherStart
    \/ OtherAnchor
    \/ OtherBatchStart
    \/ OtherResolve
    \/ OtherReject
    \/ OtherBatchDone
    \/ OtherNextAnchor
    \/ OtherBuild

\* Array.prototype.reverse, on a copy
Reverse(seq) == [k \in 1..Len(seq) |-> seq[Len(seq) + 1 - k]]

\* two passes over the same tasks; the second holds them in the same or in the
\* opposite order
InitOverlap ==
    /\ allTasks \in UNION {Batches(n, {<<"a">>}, {"MEDIUM"}, {<<>>}) :
                              n \in 1..MaxOverlapTasks}
    /\ answers = {Score(5, 10), Score(9, 10)}
    /\ tasks = IndexOf(allTasks)
    /\ pc = "start"
    /\ idx = 1
    /\ run = 1
    /\ before = tasks
    /\ after1 = tasks
    /\ similarityCache = NoScores
    /\ similarities = NoScores
    /\ comparisons = <<>>
    /\ offset = 1
    /\ calls = <<>>
    /\ groups = <<>>
    /\ compareFailed = FALSE
    /\ nextId = Len(allTasks) + 1
    /\ DbIdle
    /\ CmpIdle
    /\ other \in {[NoPass EXCEPT !.all = all] : all \in {allTasks, Reverse(allTasks)}}
    /\ DeadlineIdle
    /\ extracted = <<>>
    /\ ApiIdle

NextOverlap == NextGroup \/ NextOther

SpecOverlap == InitOverlap /\ [][NextOverlap]_vars

(***************************************************************************)
(* Durable store: createTask and dbService.handleTaskCreated               *)
(***************************************************************************)
\* the row handleTaskCreated inserts for a task
dbRow(task) ==
    [id |-> task.id, thread_id |-> task.threadId, description |-> task.description,
     priority |-> task.priority, status |-> task.status,
     parent_task_id |-> task.parentTaskId]

\* getTasksByThreadId: the rows of the thread that are not COMPLETED
getTasksByThreadId(rows, threadId) ==
    SelectSeq(rows, LAMBDA r : r.thread_id = threadId /\ r.status # "COMPLETED")

sameDescriptionExact(d1, d2) == d1 = d2

\* existingTask.description.toLowerCase().trim() ===
\*     task.description.toLowerCase().trim()
sameDescription(d1, d2) == trim(toLowerCase(d1)) = trim(toLowerCase(d2))

\* existingTasks.some(...)
existsSimilar(rows, task) ==
    \E m \in 1..Len(getTasksByThreadId(rows, task.threadId)) :
        sameDescription(getTasksByThreadId(rows, task.threadId)[m].description,
                        task.description)

\* createTask is called with the next task data: the task is stored in the
\* index and task:created is emitted; the listener handleTaskCreated runs up to
\* its first await, the read of the thread's rows
CreateTask ==
    /\ pc = "db"
    /\ nCreated < Len(created)
    /\ nCreated' = nCreated + 1
    /\ tasks' = createTask(tasks, created[nCreated + 1].id, created[nCreated + 1])
    /\ hpc' = [hpc EXCEPT ![nCreated + 1] = "read"]
    /\ UNCHANGED <<cmpVars, sideVars, allTasks, pc, idx, prioVars, groupVars, nextId, db, created,
                   houtcome>>

\* createTask is called when every handler started so far has finished
CreateTaskInTurn ==
    /\ \A k \in 1..Len(hpc) : hpc[k] \in {"idle", "done"}
    /\ CreateTask

\* handleTaskCreated: the read of the thread's rows resolves and the
\* duplicate check is made; a duplicate ends the handler, otherwise the INSERT
\* is issued
HandleCreatedRead ==
    /\ pc = "db"
    /\ \E k \in 1..Len(hpc) :
        /\ hpc[k] = "read"
        /\ IF existsSimilar(db, created[k])
           THEN /\ hpc' = [hpc EXCEPT ![k] = "done"]
                /\ houtcome' = [houtcome EXCEPT ![k] = "skipped"]
           ELSE /\ hpc' = [hpc EXCEPT ![k] = "insert"]
                /\ UNCHANGED houtcome
    /\ UNCHANGED <<cmpVars, sideVars, tasks, allTasks, pc, idx, prioVars, groupVars, nextId, db,
                   created, nCreated>>

\* handleTaskCreated: the INSERT runs; it fails on the PRIMARY KEY when a row
\* with the id exists, and the error is caught and logged
HandleCreatedInsert ==
    /\ pc = "db"
    /\ \E k \in 1..Len(hpc) :
        /\ hpc[k] = "insert"
        /\ hpc' = [hpc EXCEPT ![k] = "done"]
        /\ IF \E m \in 1..Len(db) : db[m].id = created[k].id
           THEN /\ houtcome' = [houtcome EXCEPT ![k] = "failed"]
                /\ UNCHANGED db
           ELSE /\ houtcome' = [houtcome EXCEPT ![k] = "inserted"]
                /\ db' = Append(db, dbRow(created[k]))
    /\ UNCHANGED <<cmpVars, sideVars, tasks, allTasks, pc, idx, prioVars, groupVars, nextId,
                   created, nCreated>>

\* the task data of a createTask call: a description, a thread and an id
DbTaskData(ids) ==
    {[NewTask(id, d, "MEDIUM", <<>>) EXCEPT !.threadId = t] :
        id \in ids, d \in Strings(MaxDescLen) \ {<<>>}, t \in {1, 2}}

\* two createTask calls; the second may reuse the id of the first
InitDb ==
    /\ created \in {<<t1, t2>> : t1 \in DbTaskData({1}), t2 \in DbTaskData({1, 2})}
    /\ nCreated = 0
    /\ hpc = [k \in 1..Len(created) |-> "idle"]
    /\ houtcome = [k \in 1..Len(created) |-> "none"]
    /\ db = <<>>
    /\ tasks = <<>>
    /\ allTasks = <<>>
    /\ pc = "db"
    /\ idx = 1
    /\ run = 1
    /\ before = <<>>
    /\ after1 = <<>>
    /\ GroupIdle
    /\ nextId = 3
    /\ CmpIdle
    /\ SideIdle

\* the handlers of the two calls interleave
NextDb == CreateTask \/ HandleCreatedRead \/ HandleCreatedInsert

SpecDb == InitDb /\ [][NextDb]_vars

\* a call is made only when the handlers of the calls before it have finished
NextDbInTurn == CreateTaskInTurn \/ HandleCreatedRead \/ HandleCreatedInsert

SpecDbInTurn == InitDb /\ [][NextDbInTurn]_vars

(***************************************************************************)
(* Pairwise comparator: aiService.compareTaskSimilarity                    *)
(***************************************************************************)
SeqToSet(seq) == {seq[m] : m \in 1..Len(seq)}

\* const normalize = (str) => str.toLowerCase().replace(/[^\w\s]/g, "")
normalize(s) == stripPunctuation(toLowerCase(s))

\* quickStringComparison for two strings: the Jaccard similarity of the word sets
quickStringComparison(s1, s2) ==
    LET words1 == SeqToSet(split(normalize(s1)))
        words2 == SeqToSet(split(normalize(s2)))
    IN  Score(Cardinality(words1 \cap words2), Cardinality(words1 \cup words2))

\* quickStringComparison throws a TypeError when str.toLowerCase is no function
quickThrows(v1, v2) == v1.type # "string" \/ v2.type # "string"

\* value || ""
orEmpty(v) ==
    IF v.type \in {"undefined", "null"} \/ (v.type = "string" /\ v.chars = <<>>)
    THEN JsString(<<>>)
    ELSE v

neverAbove(quickSimilarity) == FALSE

\* quickSimilarity < 0.3
belowLow(quickSimilarity) == Greater(Score(3, 10), quickSimilarity)

\* quickSimilarity > 0.9
aboveHigh(quickSimilarity) == Greater(quickSimilarity, Score(9, 10))

\* the catch block: the quick estimate of (task1Description || "",
\* task2Description || ""), which throws again for a truthy non-string
CompareCatch ==
    IF quickThrows(orEmpty(str1), orEmpty(str2))
    THEN /\ cpc' = "rejected"
         /\ UNCHANGED result
    ELSE /\ cpc' = "done"
         /\ result' = quickStringComparison(orEmpty(str1).chars, orEmpty(str2).chars)

\* compareTaskSimilarity up to its first await: the quick pre-check and the
\* two short-circuits; otherwise the prompt is sent to the model
CompareStart ==
    /\ cpc = "call"
    /\ IF quickThrows(str1, str2)
       THEN CompareCatch /\ UNCHANGED classifierCalls
       ELSE LET quickSimilarity == quickStringComparison(str1.chars, str2.chars)
            IN  IF belowLow(quickSimilarity)
                THEN /\ result' = Score(0, 1)
                     /\ cpc' = "done"
                     /\ UNCHANGED classifierCalls
                ELSE IF aboveHigh(quickSimilarity)
                THEN /\ result' = Score(1, 1)
                     /\ cpc' = "done"
                     /\ UNCHANGED classifierCalls
                ELSE /\ classifierCalls' = classifierCalls + 1
                     /\ cpc' = "invoke"
                     /\ UNCHANGED result
    /\ UNCHANGED <<dbVars, sideVars, tasks, allTasks, pc, idx, prioVars, groupVars, nextId,
                   str1, str2, response>>

\* this.model.invoke resolves with a number in [0, 1]
ClassifierScore ==
    /\ cpc = "invoke"
    /\ \E s \in {Score(0, 1), Score(1, 2), Score(85, 100), Score(1, 1)} : result' = s
    /\ response' = "score"
    /\ cpc' = "done"
    /\ UNCHANGED <<dbVars, sideVars, tasks, allTasks, pc, idx, prioVars, groupVars, nextId,
                   str1, str2, classifierCalls>>

\* this.model.invoke resolves with text that parses to NaN or to a number
\* outside [0, 1]: the quick estimate is returned
ClassifierInvalid ==
    /\ cpc = "invoke"
    /\ result' = quickStringComparison(str1.chars, str2.chars)
    /\ response' = "invalid"
    /\ cpc' = "done"
    /\ UNCHANGED <<dbVars, sideVars, tasks, allTasks, pc, idx, prioVars, groupVars, nextId,
                   str1, str2, classifierCalls>>

\* this.model.invoke rejects: the catch block runs
ClassifierFails ==
    /\ cpc = "invoke"
    /\ response' = "error"
    /\ CompareCatch
    /\ UNCHANGED <<dbVars, sideVars, tasks, allTasks, pc, idx, prioVars, groupVars, nextId,
                   str1, str2, classifierCalls>>

\* the descriptions compareTaskSimilarity is called with
JsValues == {JsString(s) : s \in Strings(MaxStrLen)} \cup {JsNumber, JsUndefined}

InitCmp ==
    /\ str1 \in JsValues
    /\ str2 \in JsValues
    /\ cpc = "call"
    /\ classifierCalls = 0
    /\ response = "none"
    /\ result = Score(0, 1)
    /\ tasks = <<>>
    /\ allTasks = <<>>
    /\ pc = "cmp"
    /\ idx = 1
    /\ run = 1
    /\ before = <<>>
    /\ after1 = <<>>
    /\ GroupIdle
    /\ nextId = 1
    /\ DbIdle
    /\ SideIdle

NextCmp == CompareStart \/ ClassifierScore \/ ClassifierInvalid \/ ClassifierFails

SpecCmp == InitCmp /\ [][NextCmp]_vars

(***************************************************************************)
(* Parent synthesis: getEarliestDeadline                                   *)
(***************************************************************************)
\* the digits a date string is written with: Digits[t + 1] writes day t, and
\* day 0 is the epoch
Digits == <<"0", "1", "2", "3", "4", "5">>

\* the date strings of day t: a short form ("2024-01-05") and the form
\* toISOString produces ("2024-01-05T00:00:00.000Z")
ShortDate(t) == JsString(<<"d", Digits[t + 1]>>)

IsoDate(t) == JsString(<<"d", Digits[t + 1], "Z">>)

\* Number.NaN and a number of milliseconds
NaN == [nan |-> TRUE, ms |-> 0]

Ms(t) == [nan |-> FALSE, ms |-> t]

\* new Date(d).getTime(): null is the epoch, undefined and a string that is no
\* date are NaN
getTime(d) ==
    IF d.type = "null" THEN Ms(0)
    ELSE IF /\ d.type = "string"
            /\ Len(d.chars) \in {2, 3}
            /\ d.chars[1] = "d"
            /\ \E t \in 1..Len(Digits) : Digits[t] = d.chars[2]
            /\ Len(d.chars) = 3 => d.chars[3] = "Z"
    THEN Ms((CHOOSE t \in 1..Len(Digits) : Digits[t] = d.chars[2]) - 1)
    ELSE NaN

\* a value is truthy: null, undefined and "" are not
truthy(d) == ~ (d.type \in {"null", "undefined"} \/ (d.type = "string" /\ d.chars = <<>>))

parsesAsDate(d) == ~ getTime(d).nan

\* the filter of getEarliestDeadline: d && !isNaN(new Date(d).getTime())
isValidDeadline(d) == truthy(d) /\ ~ getTime(d).nan

\* Math.min of a non-empty sequence of numbers
MathMin(ns) == CHOOSE n \in SeqToSet(ns) : \A m \in SeqToSet(ns) : n <= m

\* getEarliestDeadline for the deadlines of the tasks of a group
getEarliestDeadline(ds) ==
    LET validDeadlines == SelectSeq(ds, isValidDeadline)
    IN  IF Len(validDeadlines) = 0 THEN JsNull
        ELSE IsoDate(MathMin([k \in 1..Len(validDeadlines) |->
                                  getTime(validDeadlines[k]).ms]))

\* createParentTask calls getEarliestDeadline(taskGroup); no statement of its
\* try block throws for task objects, so it returns
GetEarliestDeadline ==
    /\ pc = "deadline"
    /\ earliest.state = "idle"
    /\ earliest' = [state |-> "returned", value |-> getEarliestDeadline(deadlines)]
    /\ UNCHANGED <<dbVars, cmpVars, tasks, allTasks, pc, idx, prioVars, groupVars, nextId,
                   other, deadlines, extracted, apiVars>>

\* the deadlines the classifier gives a task: null, none, "", a string that is
\* no date, and date strings
DeadlineValues ==
    {JsNull, JsUndefined, JsString(<<>>), JsString(<<"x">>)}
        \cup {ShortDate(t) : t \in 1..MaxTime} \cup {IsoDate(t) : t \in 1..MaxTime}

InitDeadline ==
    /\ deadlines \in UNION {[1..n -> DeadlineValues] : n \in 0..MaxDeadlines}
    /\ earliest = [state |-> "idle", value |-> JsNull]
    /\ tasks = <<>>
    /\ allTasks = <<>>
    /\ pc = "deadline"
    /\ idx = 1
    /\ run = 1
    /\ before = <<>>
    /\ after1 = <<>>
    /\ GroupIdle
    /\ nextId = 1
    /\ DbIdle
    /\ CmpIdle
    /\ other = NoPass
    /\ extracted = <<>>
    /\ ApiIdle

NextDeadline == GetEarliestDeadline

SpecDeadline == InitDeadline /\ [][NextDeadline]_vars

(***************************************************************************)
(* The life of a task: extractTasksFromEmail, createTask, updateTask,      *)
(* updateTaskStatus                                                        *)
(***************************************************************************)
\* str.replace(/\s+/g, " "): every run of whitespace becomes one space
RECURSIVE collapseSpaces(_)
collapseSpaces(s) ==
    IF s = <<>> THEN <<>>
    ELSE IF isSpace(s[1])
    THEN IF Len(s) > 1 /\ isSpace(s[2])
         THEN collapseSpaces(Tail(s))
         ELSE <<" ">> \o collapseSpaces(Tail(s))
    ELSE <<s[1]>> \o collapseSpaces(Tail(s))

\* an id: the random part of the ids createTask makes up, or the components
\* generateTaskId hashes (the hash is taken to be free of collisions)
RandomId(n) == [random |-> n, components |-> <<>>]

HashId(components) == [random |-> 0, components |-> components]

\* no id: the field is absent from the task data
NoTaskId == RandomId(0)

\* generateTaskId: the hash of thread, normalized description, deadline and
\* priority
generateTaskId(task) ==
    LET normalizedDescription == collapseSpaces(trim(toLowerCase(task.description)))
    IN  HashId(<<task.threadId, normalizedDescription, orEmpty(task.deadline),
                 task.priority>>)

\* what the classifier made of a task of the email: description, deadline and
\* priority, without an id
classifierTask(threadId, description, deadline, priority) ==
    Spread(NewTask(NoTaskId, description, priority, <<>>),
           [threadId |-> threadId, deadline |-> deadline])

\* analyzeTasksInEmail: the tasks get their generated id
analysedTask(threadId, description, deadline, priority) ==
    [classifierTask(threadId, description, deadline, priority) EXCEPT
        !.id = generateTaskId(classifierTask(threadId, description, deadline, priority))]

\* createTask: taskData.id || `task_${Date.now()}_${random}`
taskIdOf(taskData, fresh) ==
    IF taskData.id # NoTaskId THEN taskData.id ELSE fresh

LifeThreads == {1, 2}

LifeDescriptions == {<<"a", " ", "a">>, <<"A", " ", " ", "a", " ">>, <<"a">>}

LifeDeadlines == {JsNull, ShortDate(1)}

LifePriorities == {"HIGH", "LOW"}

\* the outcomes of aiService.compareTaskSets for one new task: an error (the
\* task itself comes back with CREATE), or the parsed answer of the classifier
CompareOutcomes == {"error", "CREATE", "UPDATE", "SKIP"}

\* one task of the batch of extractTasksFromEmail is processed
ExtractTask ==
    /\ pc = "life"
    /\ Len(extracted) < MaxExtracted
    /\ \E threadId \in LifeThreads, description \in LifeDescriptions,
          deadline \in LifeDeadlines, priority \in LifePriorities,
          outcome \in CompareOutcomes, existingTaskId \in (DOMAIN tasks) \cup {NoTaskId} :
        LET task == analysedTask(threadId, description, deadline, priority)
            answer == classifierTask(threadId, description, deadline, priority)
            taskData == IF outcome = "error" THEN task ELSE answer
            taskId == taskIdOf(taskData, RandomId(nextId))
        IN  IF outcome \in {"error", "CREATE"}
            THEN /\ existingTaskId = NoTaskId
                 /\ tasks' = createTask(tasks, taskId, taskData)
                 /\ nextId' = IF taskId = RandomId(nextId) THEN nextId + 1 ELSE nextId
                 /\ extracted' = Append(extracted,
                        [task |-> task, action |-> "created", storedId |-> taskId])
            ELSE IF outcome = "UPDATE" /\ existingTaskId \in DOMAIN tasks
            THEN /\ tasks' = updateTask(tasks, existingTaskId,
                                 [description |-> description, priority |-> priority,
                                  deadline |-> deadline, threadId |-> threadId])
                 /\ extracted' = Append(extracted,
                        [task |-> task, action |-> "updated", storedId |-> existingTaskId])
                 /\ UNCHANGED nextId
            ELSE /\ existingTaskId = NoTaskId
                 /\ extracted' = Append(extracted,
                        [task |-> task, action |-> "none", storedId |-> NoTaskId])
                 /\ UNCHANGED <<tasks, nextId>>
    /\ UNCHANGED <<dbVars, cmpVars, allTasks, pc, idx, prioVars, groupVars,
                   other, deadlines, earliest, apiVars>>

\* the update data of an updateTask call
UpdateData ==
    {[priority |-> p] : p \in LifePriorities}
        \cup {[status |-> st] : st \in {"PENDING", "COMPLETED"}}
        \cup {[id |-> id] : id \in DOMAIN tasks}

\* updateTask is called for a task of the index
UpdateTask ==
    /\ pc = "life"
    /\ \E taskId \in DOMAIN tasks, updatedData \in UpdateData :
        tasks' = updateTask(tasks, taskId, updatedData)
    /\ UNCHANGED <<dbVars, cmpVars, allTasks, pc, idx, prioVars, groupVars, nextId,
                   sideVars>>

\* updateTaskStatus is called for a task of the index: task.status = status
UpdateTaskStatus ==
    /\ pc = "life"
    /\ \E taskId \in DOMAIN tasks, status \in {"PENDING", "COMPLETED"} :
        tasks' = [tasks EXCEPT ![taskId].status = status]
    /\ UNCHANGED <<dbVars, cmpVars, allTasks, pc, idx, prioVars, groupVars, nextId,
                   sideVars>>

InitLife ==
    /\ tasks = <<>>
    /\ extracted = <<>>
    /\ nextId = 1
    /\ allTasks = <<>>
    /\ pc = "life"
    /\ idx = 1
    /\ run = 1
    /\ before = <<>>
    /\ after1 = <<>>
    /\ GroupIdle
    /\ DbIdle
    /\ CmpIdle
    /\ other = NoPass
    /\ DeadlineIdle
    /\ ApiIdle

NextLife == ExtractTask \/ UpdateTask \/ UpdateTaskStatus

SpecLife == InitLife /\ [][NextLife]_vars

(***************************************************************************)
(* Clustering while the classifier is unavailable                          *)
(***************************************************************************)
\* a description of k different words ("a aa aaa ..."), "" for k = 0
RECURSIVE Sentence(_)
Sentence(k) ==
    IF k = 0 THEN <<>>
    ELSE IF k = 1 THEN <<"a">>
    ELSE Sentence(k - 1) \o <<" ">> \o [i \in 1..k |-> "a"]

compareAsDifferent(d1, d2) == Score(0, 1)

\* compareTaskSimilarity for two strings when this.model.invoke rejects: the
\* short-circuits, and otherwise the estimate the catch block returns
compareWhenClassifierFails(d1, d2) ==
    LET quickSimilarity == quickStringComparison(d1, d2)
    IN  IF belowLow(quickSimilarity) THEN Score(0, 1)
        ELSE IF aboveHigh(quickSimilarity) THEN Score(1, 1)
        ELSE quickStringComparison(orEmpty(JsString(d1)).chars, orEmpty(JsString(d2)).chars)

\* aiService.compareTaskSimilarity resolves for one call of the batch while
\* the classifier gives no answer
CompareFallback ==
    /\ pc = "await"
    /\ answers = {}
    /\ \E m \in 1..Len(calls) :
        /\ calls[m].state = "pending"
        /\ calls' = [calls EXCEPT ![m] =
                        [@ EXCEPT !.state = "resolved",
                                  !.similarity = compareWhenClassifierFails(
                                      allTasks[comparisons[offset + m - 1].task].description,
                                      allTasks[comparisons[offset + m - 1].otherTask].description)]]
    /\ UNCHANGED <<dbVars, cmpVars, sideVars, tasks, allTasks, pc, idx, prioVars,
                   similarityCache, similarities, comparisons, offset, groups, answers,
                   compareFailed, nextId>>

FallbackDescriptions == {Sentence(k) : k \in 0..MaxWords}

\* clustering of tasks with string descriptions, from an empty cache, while
\* every classifier call fails
InitFallback ==
    /\ allTasks \in UNION {Batches(n, FallbackDescriptions, {"MEDIUM"}, {<<>>}) :
                              n \in 1..MaxFallbackTasks}
    /\ answers = {}
    /\ InitRun

NextFallback ==
    \/ OptimizeStart
    \/ GroupStart
    \/ GroupAnchor
    \/ GroupBatchStart
    \/ CompareFallback
    \/ GroupBatchDone
    \/ GroupNextAnchor
    \/ GroupBuild

SpecFallback == InitFallback /\ [][NextFallback]_vars

(***************************************************************************)
(* The public operations of taskService: createTask, updateTask and        *)
(* updateTaskStatus, the events they emit and the completion mail          *)
(***************************************************************************)
\* no email: the emailId of a task that comes from no email
NoEmail == 0

\* an object without some of its fields
Without(task, fields) == [f \in (DOMAIN task) \ fields |-> task[f]]

\* `${task.description}`: the text of the field, "undefined" when it is absent
descriptionText(task) ==
    IF "description" \in DOMAIN task THEN task.description ELSE <<"undefined">>

\* the row of the tasks table with the columns the operations read
ApiRow(task) ==
    Spread(dbRow(task), [email_id |-> task.emailId, deadline |-> task.deadline])

\* dbService.getTaskById: the task of the row with the id, or null.  The
\* object is given the emailId and threadId updateTask reads from email_id and
\* thread_id.
getTaskById(rows, taskId) ==
    IF \E m \in 1..Len(rows) : rows[m].id = taskId
    THEN LET task == rows[CHOOSE m \in 1..Len(rows) : rows[m].id = taskId]
         IN  Spread(NewTask(task.id, task.description, task.priority, <<>>),
                    [status |-> task.status, threadId |-> task.thread_id,
                     parentTaskId |-> task.parent_task_id,
                     emailId |-> task.email_id, deadline |-> task.deadline])
    ELSE JsNull

loadTaskFromDbOrNew(rows, taskId) ==
    IF getTaskById(rows, taskId) # JsNull THEN getTaskById(rows, taskId)
    ELSE Spread(NewTask(taskId, <<"a">>, "MEDIUM", <<>>),
                [emailId |-> NoEmail, deadline |-> JsNull])

\* loadTaskFromDb: the task getTaskById finds, or null
loadTaskFromDb(rows, taskId) == getTaskById(rows, taskId)

\* this.emit(name, payload)
Emitted(name, payload) == [name |-> name, payload |-> payload]

\* sendTaskCompletionEmail: the message sent to the email of the task
completionMessage(task, comment) ==
    [emailId |-> task.emailId,
     description |-> descriptionText(task),
     notes |-> comment,
     deadline |-> IF truthy(task.deadline) THEN task.deadline.chars ELSE <<>>]

\* the email and the deadline of the task data of a createTask call
ApiContexts ==
    {[emailId |-> NoEmail, deadline |-> JsNull],
     [emailId |-> 1, deadline |-> JsNull],
     [emailId |-> 1, deadline |-> ShortDate(1)]}

\* the task data of a createTask call: with or without an id, an email, a
\* deadline, a description and a priority
ApiTaskData ==
    {Without(Spread(NewTask(id, <<"a">>, "HIGH", <<>>), context), missing) :
        id \in {NoId, 1}, context \in ApiContexts,
        missing \in {{}, {"description"}, {"priority"}}}

\* the ids the operations are called with: 1 is an id task data may carry,
\* 2 is the id of no task, 3 is the id of the row of the store
ApiIds == {1, 2, 3} \cup DOMAIN tasks

\* createTask(taskData): no statement of its try block throws for an object
CallCreateTask ==
    /\ pc = "api"
    /\ lastCall.n < MaxCalls
    /\ \E taskData \in ApiTaskData :
        LET taskId == IF taskData.id # NoId THEN taskData.id ELSE nextId
        IN  /\ tasks' = createTask(tasks, taskId, taskData)
            /\ nextId' = IF taskData.id # NoId THEN nextId ELSE nextId + 1
            /\ events' = Append(events, Emitted("task:created", tasks'[taskId]))
            /\ lastCall' = [op |-> "createTask", n |-> lastCall.n + 1, taskId |-> taskId,
                            known |-> taskId \in DOMAIN tasks, outcome |-> "returned",
                            index |-> tasks, nEvents |-> Len(events),
                            nMails |-> Len(mails), task |-> JsNull, data |-> taskData]
    /\ UNCHANGED <<dbVars, cmpVars, allTasks, pc, idx, prioVars, groupVars,
                   other, deadlines, earliest, extracted, mails, inbox,
                   procVars>>

\* the update data of an updateTask call
ApiUpdateData == {[status |-> "COMPLETED"]}

\* updateTask(taskId, updatedData)
CallUpdateTask ==
    /\ pc = "api"
    /\ lastCall.n < MaxCalls
    /\ \E taskId \in ApiIds, updatedData \in ApiUpdateData :
        LET task == IF taskId \in DOMAIN tasks THEN tasks[taskId]
                    ELSE loadTaskFromDb(db, taskId)
            call == [op |-> "updateTask", n |-> lastCall.n + 1, taskId |-> taskId,
                     known |-> taskId \in DOMAIN tasks \/ getTaskById(db, taskId) # JsNull,
                     index |-> tasks, nEvents |-> Len(events),
                     nMails |-> Len(mails), task |-> task, data |-> updatedData]
        IN  IF task = JsNull
            THEN /\ lastCall' = Spread(call, [outcome |-> "not found"])
                 /\ UNCHANGED <<tasks, events>>
            ELSE /\ tasks' = updateTask(MapSet(tasks, taskId, task), taskId, updatedData)
                 /\ events' = Append(events,
                        Emitted("task:updated", [task |-> tasks'[taskId], oldTask |-> task]))
                 /\ lastCall' = Spread(call, [outcome |-> "returned"])
    /\ UNCHANGED <<dbVars, cmpVars, allTasks, pc, idx, prioVars, groupVars, nextId,
                   other, deadlines, earliest, extracted, mails, inbox,
                   procVars>>

\* updateTaskStatus(taskId, status, comment): the task object of the index is
\* changed in place; a failure of sendResponse is caught in
\* sendTaskCompletionEmail
CallUpdateTaskStatus ==
    /\ pc = "api"
    /\ lastCall.n < MaxCalls
    /\ \E taskId \in ApiIds, status \in {"IN_PROGRESS", "COMPLETED"},
          comment \in {<<>>, <<"a">>} :
        LET call == [op |-> "updateTaskStatus", n |-> lastCall.n + 1, taskId |-> taskId,
                     known |-> taskId \in DOMAIN tasks \/ getTaskById(db, taskId) # JsNull,
                     index |-> tasks, nEvents |-> Len(events), nMails |-> Len(mails),
                     task |-> IF taskId \in DOMAIN tasks THEN tasks[taskId] ELSE JsNull,
                     data |-> [status |-> status, comment |-> comment]]
        IN  IF taskId \notin DOMAIN tasks
            THEN /\ lastCall' = Spread(call, [outcome |-> "not found"])
                 /\ UNCHANGED <<tasks, events, mails>>
            ELSE /\ tasks' = [tasks EXCEPT ![taskId].status = status]
                 /\ events' = Append(events,
                        Emitted("task:updated",
                                [task |-> tasks'[taskId], oldStatus |-> tasks[taskId].status]))
                 /\ mails' = IF status = "COMPLETED" /\ tasks[taskId].emailId # NoEmail
                             THEN Append(mails, completionMessage(tasks'[taskId], comment))
                             ELSE mails
                 /\ lastCall' = Spread(call, [outcome |-> "returned"])
    /\ UNCHANGED <<dbVars, cmpVars, allTasks, pc, idx, prioVars, groupVars, nextId,
                   other, deadlines, earliest, extracted, inbox,
                   procVars>>

\* the store holds the row of one task of an earlier session, or nothing; the
\* index is empty after construction
ApiRows ==
    {<<>>} \cup
    {<<ApiRow(Spread(NewTask(3, <<"a">>, "MEDIUM", <<>>),
                     [emailId |-> 1, deadline |-> JsNull]))>>}

InitApi ==
    /\ db \in ApiRows
    /\ created = <<>>
    /\ nCreated = 0
    /\ hpc = <<>>
    /\ houtcome = <<>>
    /\ tasks = <<>>
    /\ allTasks = <<>>
    /\ pc = "api"
    /\ idx = 1
    /\ run = 1
    /\ before = <<>>
    /\ after1 = <<>>
    /\ GroupIdle
    /\ nextId = 4
    /\ CmpIdle
    /\ SideIdle

NextApi == CallCreateTask \/ CallUpdateTask \/ CallUpdateTaskStatus

SpecApi == InitApi /\ [][NextApi]_vars

(***************************************************************************)
(* One extraction run: extractTasksFromEmails and, for every email,        *)
(* extractTasksFromEmail.  The run is followed through its classifier      *)
(* calls; what becomes of the tasks is the subject of ExtractTask.         *)
(***************************************************************************)
\* BATCH_SIZE of extractTasksFromEmails: the emails processed at a time
BATCH_SIZE_emails == 10

\* BATCH_SIZE of extractTasksFromEmail: the tasks processed at a time
BATCH_SIZE_tasks == 5

\* an email of the run: the position of its callback, the tasks of the email
\* that wait for a later batch, and its this.model.invoke calls in flight
Email(position, waiting, invoked) ==
    [pc |-> position, waiting |-> waiting, invoked |-> invoked]

Min(a, b) == IF a < b THEN a ELSE b

\* the loop of extractTasksFromEmails takes the next batch of emails once
\* every callback of the batch before has settled: Promise.all runs the
\* callback of every email of the batch up to the await of this.model.invoke
\* in quickAnalyzeEmail
RunBatchStart ==
    /\ pc = "run"
    /\ idx <= Len(inbox)
    /\ \A k \in 1..(idx - 1) : inbox[k].pc = "done"
    /\ inbox' = [k \in 1..Len(inbox) |->
                    IF k >= idx /\ k < idx + BATCH_SIZE_emails
                    THEN Email("quick", 0, 1)
                    ELSE inbox[k]]
    /\ idx' = idx + BATCH_SIZE_emails
    /\ UNCHANGED <<dbVars, cmpVars, tasks, allTasks, pc, prioVars, groupVars, nextId,
                   other, deadlines, earliest, extracted, events, mails, lastCall,
                   procVars>>

\* quickAnalyzeEmail settles (a failure of the call counts as "do not
\* archive"): the email is marked for archiving and its callback returns, or
\* extractTasksFromEmail starts and waits for the tasks of the store
EmailQuickResolve ==
    /\ pc = "run"
    /\ \E e \in 1..Len(inbox), shouldAutoArchive \in BOOLEAN :
        /\ inbox[e].pc = "quick"
        /\ inbox' = [inbox EXCEPT ![e] =
                        IF shouldAutoArchive THEN Email("done", 0, 0)
                        ELSE Email("load", 0, 0)]
    /\ UNCHANGED <<dbVars, cmpVars, tasks, allTasks, pc, idx, prioVars, groupVars, nextId,
                   other, deadlines, earliest, extracted, events, mails, lastCall,
                   procVars>>

\* analyzeTasksInEmail: the user data and the context are there and
\* this.model.invoke is called
EmailAnalyze ==
    /\ pc = "run"
    /\ \E e \in 1..Len(inbox) :
        /\ inbox[e].pc = "load"
        /\ inbox' = [inbox EXCEPT ![e] = Email("analyze", 0, 1)]
    /\ UNCHANGED <<dbVars, cmpVars, tasks, allTasks, pc, idx, prioVars, groupVars, nextId,
                   other, deadlines, earliest, extracted, events, mails, lastCall,
                   procVars>>

\* analyzeTasksInEmail settles with the new tasks of the email: without tasks
\* the callback returns, otherwise the first batch of tasks is mapped to
\* compareTaskSets calls, each of which calls this.model.invoke
EmailAnalyzeResolve ==
    /\ pc = "run"
    /\ \E e \in 1..Len(inbox), newTasks \in 0..MaxEmailTasks :
        /\ inbox[e].pc = "analyze"
        /\ inbox' = [inbox EXCEPT ![e] =
                        IF newTasks = 0 THEN Email("done", 0, 0)
                        ELSE Email("compare",
                                   newTasks - Min(BATCH_SIZE_tasks, newTasks),
                                   Min(BATCH_SIZE_tasks, newTasks))]
    /\ UNCHANGED <<dbVars, cmpVars, tasks, allTasks, pc, idx, prioVars, groupVars, nextId,
                   other, deadlines, earliest, extracted, events, mails, lastCall,
                   procVars>>

\* one compareTaskSets call of the batch settles; with the last one of the
\* batch the loop of extractTasksFromEmail takes the next batch of tasks, or
\* returns
EmailCompareResolve ==
    /\ pc = "run"
    /\ \E e \in 1..Len(inbox) :
        /\ inbox[e].pc = "compare"
        /\ inbox' = [inbox EXCEPT ![e] =
                        IF inbox[e].invoked > 1
                        THEN Email("compare", inbox[e].waiting, inbox[e].invoked - 1)
                        ELSE IF inbox[e].waiting > 0
                        THEN Email("compare",
                                   inbox[e].waiting - Min(BATCH_SIZE_tasks, inbox[e].waiting),
                                   Min(BATCH_SIZE_tasks, inbox[e].waiting))
                        ELSE Email("done", 0, 0)]
    /\ UNCHANGED <<dbVars, cmpVars, tasks, allTasks, pc, idx, prioVars, groupVars, nextId,
                   other, deadlines, earliest, extracted, events, mails, lastCall,
                   procVars>>

\* the loop over the emails is over
RunBatchesDone ==
    /\ pc = "run"
    /\ idx > Len(inbox)
    /\ \A k \in 1..Len(inbox) : inbox[k].pc = "done"
    /\ pc' = "extracted"
    /\ UNCHANGED <<dbVars, cmpVars, sideVars, tasks, allTasks, idx, prioVars, groupVars,
                   nextId>>

\* fetchUnreadEmails has returned the unread emails
InitExtraction ==
    /\ inbox \in {[k \in 1..n |-> Email("unread", 0, 0)] : n \in 1..MaxEmails}
    /\ events = <<>>
    /\ mails = <<>>
    /\ lastCall = NoCall
    /\ ProcIdle
    /\ other = NoPass
    /\ DeadlineIdle
    /\ extracted = <<>>
    /\ pc = "run"
    /\ idx = 1
    /\ tasks = <<>>
    /\ allTasks = <<>>
    /\ run = 1
    /\ before = <<>>
    /\ after1 = <<>>
    /\ GroupIdle
    /\ nextId = 1
    /\ DbIdle
    /\ CmpIdle

NextExtraction ==
    \/ RunBatchStart
    \/ EmailQuickResolve
    \/ EmailAnalyze
    \/ EmailAnalyzeResolve
    \/ EmailCompareResolve
    \/ RunBatchesDone

SpecExtraction == InitExtraction /\ [][NextExtraction]_vars

(***************************************************************************)
(* Clustering of extraction results in which a task occurs more than once  *)
(***************************************************************************)
\* the UPDATE branch of extractTasksFromEmail returns the task updateTask
\* stored under existingTaskId: two new tasks that update the same existing
\* task put two objects with the same id in the results
InitRepeat ==
    /\ allTasks \in UNION {[1..n -> {NewTask(id, <<"a">>, "MEDIUM", <<>>) : id \in 1..2}] :
                              n \in 1..MaxRepeatTasks}
    /\ answers = {Score(5, 10), Score(9, 10)}
    /\ InitRun

SpecRepeat == InitRepeat /\ [][NextBatch]_vars

(***************************************************************************)
(* The store follows the index: createTask and updateTask emit and return  *)
(* without waiting for dbService.handleTaskCreated and handleTaskUpdated,   *)
(* whose steps between two awaits interleave                               *)
(***************************************************************************)
\* the task a handler was called with
taskOfEvent(e) == IF e.name = "task:created" THEN e.payload ELSE e.payload.task

\* the update data of the updateTask calls that follow the creation: the
\* priority escalated, the task completed, the task linked to a parent
SyncUpdateData ==
    {[priority |-> "HIGH"], [status |-> "COMPLETED"], [parentTaskId |-> 9, isSubtask |-> TRUE]}

\* createTask: the task is stored and task:created is emitted; the listener
\* handleTaskCreated runs up to its first await, the read of the thread's rows
SyncCreateTask ==
    /\ pc = "sync"
    /\ events = <<>>
    /\ tasks' = createTask(tasks, 1, NewTask(1, <<"a">>, "LOW", <<>>))
    /\ events' = Append(events, Emitted("task:created", tasks'[1]))
    /\ hpc' = Append(hpc, "read")
    /\ houtcome' = Append(houtcome, "none")
    /\ UNCHANGED <<cmpVars, allTasks, pc, idx, prioVars, groupVars, nextId, db, created,
                   nCreated, other, deadlines, earliest, extracted, mails, lastCall, inbox,
                   procVars>>

\* updateTask for the task of the index: the new object is stored and
\* task:updated is emitted; the listener handleTaskUpdated runs up to its
\* first await, the SELECT of the id
SyncUpdateTask ==
    /\ pc = "sync"
    /\ 1 \in DOMAIN tasks
    /\ Len(events) <= MaxUpdates
    /\ \E updatedData \in SyncUpdateData :
        /\ tasks' = updateTask(tasks, 1, updatedData)
        /\ events' = Append(events,
               Emitted("task:updated", [task |-> tasks'[1], oldTask |-> tasks[1]]))
    /\ hpc' = Append(hpc, "select")
    /\ houtcome' = Append(houtcome, "none")
    /\ UNCHANGED <<cmpVars, allTasks, pc, idx, prioVars, groupVars, nextId, db, created,
                   nCreated, other, deadlines, earliest, extracted, mails, lastCall, inbox,
                   procVars>>

\* handleTaskUpdated: the SELECT of the id resolves; without a row the handler
\* calls handleTaskCreated(task), which starts with the read of the thread's
\* rows; with a row it reads the existing task
HandleUpdatedSelect ==
    /\ pc = "sync"
    /\ \E k \in 1..Len(hpc) :
        /\ hpc[k] = "select"
        /\ hpc' = [hpc EXCEPT ![k] =
                      IF \E m \in 1..Len(db) : db[m].id = taskOfEvent(events[k]).id
                      THEN "existing" ELSE "read"]
    /\ UNCHANGED <<cmpVars, sideVars, tasks, allTasks, pc, idx, prioVars, groupVars, nextId,
                   db, created, nCreated, houtcome>>

\* handleTaskUpdated: getTaskById resolves and the UPDATE is issued
HandleUpdatedExisting ==
    /\ pc = "sync"
    /\ \E k \in 1..Len(hpc) :
        /\ hpc[k] = "existing"
        /\ hpc' = [hpc EXCEPT ![k] = "update"]
    /\ UNCHANGED <<cmpVars, sideVars, tasks, allTasks, pc, idx, prioVars, groupVars, nextId,
                   db, created, nCreated, houtcome>>

\* handleTaskUpdated: the UPDATE runs: the row of the id gets the values of
\* the task the handler was called with
HandleUpdatedWrite ==
    /\ pc = "sync"
    /\ \E k \in 1..Len(hpc) :
        /\ hpc[k] = "update"
        /\ hpc' = [hpc EXCEPT ![k] = "done"]
        /\ houtcome' = [houtcome EXCEPT ![k] = "updated"]
        /\ db' = [m \in 1..Len(db) |->
                     IF db[m].id = taskOfEvent(events[k]).id
                     THEN dbRow(taskOfEvent(events[k])) ELSE db[m]]
    /\ UNCHANGED <<cmpVars, sideVars, tasks, allTasks, pc, idx, prioVars, groupVars, nextId,
                   created, nCreated>>

\* handleTaskCreated: the read of the thread's rows resolves and the
\* duplicate check is made
HandleRead ==
    /\ pc = "sync"
    /\ \E k \in 1..Len(hpc) :
        /\ hpc[k] = "read"
        /\ IF existsSimilar(db, taskOfEvent(events[k]))
           THEN /\ hpc' = [hpc EXCEPT ![k] = "done"]
                /\ houtcome' = [houtcome EXCEPT ![k] = "skipped"]
           ELSE /\ hpc' = [hpc EXCEPT ![k] = "insert"]
                /\ UNCHANGED houtcome
    /\ UNCHANGED <<cmpVars, sideVars, tasks, allTasks, pc, idx, prioVars, groupVars, nextId,
                   db, created, nCreated>>

\* handleTaskCreated: the INSERT runs; it fails on the PRIMARY KEY when a row
\* with the id exists, and the error is caught and logged
HandleInsert ==
    /\ pc = "sync"
    /\ \E k \in 1..Len(hpc) :
        /\ hpc[k] = "insert"
        /\ hpc' = [hpc EXCEPT ![k] = "done"]
        /\ IF \E m \in 1..Len(db) : db[m].id = taskOfEvent(events[k]).id
           THEN /\ houtcome' = [houtcome EXCEPT ![k] = "failed"]
                /\ UNCHANGED db
           ELSE /\ houtcome' = [houtcome EXCEPT ![k] = "inserted"]
                /\ db' = Append(db, dbRow(taskOfEvent(events[k])))
    /\ UNCHANGED <<cmpVars, sideVars, tasks, allTasks, pc, idx, prioVars, groupVars, nextId,
                   created, nCreated>>

\* an empty index and an empty store
InitSync ==
    /\ tasks = <<>>
    /\ db = <<>>
    /\ created = <<>>
    /\ nCreated = 0
    /\ hpc = <<>>
    /\ houtcome = <<>>
    /\ allTasks = <<>>
    /\ pc = "sync"
    /\ idx = 1
    /\ run = 1
    /\ before = <<>>
    /\ after1 = <<>>
    /\ GroupIdle
    /\ nextId = 2
    /\ CmpIdle
    /\ SideIdle

NextSync ==
    \/ SyncCreateTask
    \/ SyncUpdateTask
    \/ HandleUpdatedSelect
    \/ HandleUpdatedExisting
    \/ HandleUpdatedWrite
    \/ HandleRead
    \/ HandleInsert

SpecSync == InitSync /\ [][NextSync]_vars

(***************************************************************************)
(* Email processing on command: handleStartProcessing,                     *)
(* handleStopProcessing, startEmailProcessing, stopEmailProcessing         *)
(***************************************************************************)
\* /start_processing: handleStartProcessing reads isProcessingEmails(); when
\* it is false the handler awaits the "Starting" message, otherwise it
\* answers that the processing is running
StartCommand ==
    /\ pc = "commands"
    /\ commands.issued < MaxCommands
    /\ commands' = [issued |-> commands.issued + 1,
                    starting |-> IF isProcessingEmails THEN commands.starting
                                 ELSE commands.starting + 1]
    /\ UNCHANGED <<dbVars, cmpVars, tasks, allTasks, pc, idx, prioVars, groupVars, nextId,
                   other, deadlines, earliest, extracted, events, mails, lastCall, inbox,
                   isProcessingEmails, runs>>

\* handleStartProcessing: the message was sent and startEmailProcessing is
\* called: when the flag is false it is set and processEmails(true) starts
StartEmailProcessing ==
    /\ pc = "commands"
    /\ commands.starting > 0
    /\ commands' = [commands EXCEPT !.starting = @ - 1]
    /\ IF ~ isProcessingEmails
       THEN /\ isProcessingEmails' = TRUE
            /\ runs' = Append(runs, "running")
       ELSE UNCHANGED <<isProcessingEmails, runs>>
    /\ UNCHANGED <<dbVars, cmpVars, tasks, allTasks, pc, idx, prioVars, groupVars, nextId,
                   other, deadlines, earliest, extracted, events, mails, lastCall, inbox>>

\* processEmails(true) resolves, after the emails or after an error it has
\* caught and logged, and startEmailProcessing resets the flag
ProcessEmailsResolve ==
    /\ pc = "commands"
    /\ \E r \in 1..Len(runs) :
        /\ runs[r] = "running"
        /\ runs' = [runs EXCEPT ![r] = "ended"]
    /\ isProcessingEmails' = FALSE
    /\ UNCHANGED <<dbVars, cmpVars, tasks, allTasks, pc, idx, prioVars, groupVars, nextId,
                   other, deadlines, earliest, extracted, events, mails, lastCall, inbox,
                   commands>>

\* processEmails(true) rejects: its catch block rethrows an error whose
\* message contains "Failed to initialize", and startEmailProcessing rejects
\* before the statement that resets the flag
ProcessEmailsReject ==
    /\ pc = "commands"
    /\ \E r \in 1..Len(runs) :
        /\ runs[r] = "running"
        /\ runs' = [runs EXCEPT ![r] = "failed"]
    /\ UNCHANGED <<dbVars, cmpVars, tasks, allTasks, pc, idx, prioVars, groupVars, nextId,
                   other, deadlines, earliest, extracted, events, mails, lastCall, inbox,
                   isProcessingEmails, commands>>

\* /stop_processing: handleStopProcessing calls stopEmailProcessing when
\* isProcessingEmails() is true; the flag is reset and nothing else is done
StopCommand ==
    /\ pc = "commands"
    /\ commands.issued < MaxCommands
    /\ commands' = [commands EXCEPT !.issued = @ + 1]
    /\ isProcessingEmails' = FALSE
    /\ UNCHANGED <<dbVars, cmpVars, tasks, allTasks, pc, idx, prioVars, groupVars, nextId,
                   other, deadlines, earliest, extracted, events, mails, lastCall, inbox,
                   runs>>

\* the service is up and no command was given
InitCommands ==
    /\ ProcIdle
    /\ events = <<>>
    /\ mails = <<>>
    /\ lastCall = NoCall
    /\ inbox = <<>>
    /\ other = NoPass
    /\ DeadlineIdle
    /\ extracted = <<>>
    /\ pc = "commands"
    /\ idx = 1
    /\ tasks = <<>>
    /\ allTasks = <<>>
    /\ run = 1
    /\ before = <<>>
    /\ after1 = <<>>
    /\ GroupIdle
    /\ nextId = 1
    /\ DbIdle
    /\ CmpIdle

NextCommands ==
    \/ StartCommand
    \/ StartEmailProcessing
    \/ ProcessEmailsResolve
    \/ ProcessEmailsReject
    \/ StopCommand

SpecCommands == InitCommands /\ [][NextCommands]_vars

(***************************************************************************)
(* Claims about priority propagation (SpecPrio)                            *)
(***************************************************************************)
\* the urgency order of the specification: HIGH < MEDIUM < LOW
Rank(priority) ==
    CASE priority = "HIGH" -> 0
      [] priority = "MEDIUM" -> 1
      [] priority = "LOW" -> 2

FirstPassDone == pc = "done" /\ run = 1

\* C1: after the pass, every prerequisite D named by a dependency string of a
\* task T and less urgent than T before the pass is stored with a priority at
\* least as urgent as T's (T = HIGH included).
C1_PrerequisiteEscalated ==
    FirstPassDone =>
        \A t, d \in 1..Len(allTasks) :
            (/\ Includes(allTasks[t].dependencies, allTasks[d].description)
             /\ Rank(before[allTasks[d].id].priority) > Rank(allTasks[t].priority))
            => Rank(tasks[allTasks[d].id].priority) <= Rank(allTasks[t].priority)

\* C2: after the pass no task is stored with a less urgent priority than
\* before the pass.
C2_NeverLessUrgent ==
    FirstPassDone =>
        \A id \in DOMAIN tasks :
            Rank(tasks[id].priority) <= Rank(before[id].priority)

\* C9: a second pass over the same batch leaves every stored priority as the
\* first pass left it.
C9_SecondPassNoChange ==
    (pc = "done" /\ run = 2) =>
        \A id \in DOMAIN tasks : tasks[id].priority = after1[id].priority

\* a second pass has finished after a first pass that changed a priority
C9_Witness ==
    /\ pc = "done"
    /\ run = 2
    /\ \E id \in DOMAIN tasks : after1[id].priority # before[id].priority

(***************************************************************************)
(* Claims about clustering and parent synthesis (SpecGroup, SpecOpt)       *)
(***************************************************************************)
\* the most urgent priority of a non-empty set of priorities
MostUrgent(ps) == CHOOSE p \in ps : \A q \in ps : Rank(p) <= Rank(q)

\* C3: every parent task has the most urgent priority present among the
\* members of its cluster.
C3_ParentMostUrgent ==
    \A id \in DOMAIN tasks :
        tasks[id].isParent =>
            tasks[id].priority =
                MostUrgent({allTasks[k].priority :
                              k \in {k \in 1..Len(allTasks) :
                                       allTasks[k].id \in SeqToSet(tasks[id].childTaskIds)}})

\* C6: after every completed run of optimizeTaskList, every parent of the
\* index has children, and each child it lists is a subtask whose
\* parentTaskId is that parent's id.
C6_ParentChildLinks ==
    pc = "done" =>
        \A id \in DOMAIN tasks :
            tasks[id].isParent =>
                /\ Len(tasks[id].childTaskIds) > 0
                /\ \A c \in SeqToSet(tasks[id].childTaskIds) :
                      /\ c \in DOMAIN tasks
                      /\ tasks[c].isSubtask
                      /\ tasks[c].parentTaskId = id

\* C7: when a comparator call has rejected, groupSimilarTasks resolves with
\* one singleton cluster per input task, in input order.
C7_FallbackSingletons ==
    (compareFailed /\ pc # "catch") =>
        /\ pc = "grouped"
        /\ groups = [k \in 1..Len(allTasks) |-> <<k>>]

\* the ids of the clusters before cluster c
EarlierIds(c) ==
    UNION {{allTasks[groups[e][m]].id : m \in 1..Len(groups[e])} : e \in 1..(c - 1)}

\* the positions of the input tasks not contained in a cluster before c
Free(c) == {k \in 1..Len(allTasks) : allTasks[k].id \notin EarlierIds(c)}

Earliest(ks) == CHOOSE k \in ks : \A m \in ks : k <= m

\* C8: the clusters come in the order of their anchors; the anchor of a
\* cluster is the earliest input task not in an earlier cluster, and the other
\* members are exactly the later tasks not in an earlier cluster whose score
\* with the anchor is strictly greater than 0.8.
C8_AnchorFirstClusters ==
    pc = "grouped" =>
        /\ Free(Len(groups) + 1) = {}
        /\ \A c \in 1..Len(groups) :
              /\ Free(c) # {}
              /\ groups[c][1] = Earliest(Free(c))
              /\ Tail(groups[c]) =
                    SelectSeq(Positions(allTasks),
                        LAMBDA m :
                            /\ m > Earliest(Free(c))
                            /\ m \in Free(c)
                            /\ Greater(similarities[getSimilarityCacheKey(
                                          allTasks[Earliest(Free(c))].id, allTasks[m].id)],
                                       Score(8, 10)))

\* a cluster of two or more was built while a task that scored exactly 0.8
\* with its anchor was left out of that cluster
C8_Witness ==
    /\ pc = "grouped"
    /\ \E c \in 1..Len(groups) :
          /\ Len(groups[c]) > 1
          /\ \E m \in 1..Len(allTasks) :
                /\ m > groups[c][1]
                /\ ~ Includes(groups[c], m)
                /\ similarities[getSimilarityCacheKey(allTasks[groups[c][1]].id,
                                                      allTasks[m].id)] = Score(8, 10)

(***************************************************************************)
(* Claims about the durable store (SpecDbInTurn, SpecDb)                   *)
(***************************************************************************)
AllHandled ==
    /\ pc = "db"
    /\ nCreated = Len(created)
    /\ \A k \in 1..Len(hpc) : hpc[k] = "done"

\* the two created tasks are of one thread and their descriptions are equal
\* after lower-casing and trimming
SameTaskTwice ==
    /\ pc = "db"
    /\ created[1].threadId = created[2].threadId
    /\ trim(toLowerCase(created[1].description))
         = trim(toLowerCase(created[2].description))

C5_NoDuplicateRows ==
    \A m, n \in 1..Len(db) :
        (/\ m # n
         /\ db[m].thread_id = db[n].thread_id
         /\ db[m].status # "COMPLETED"
         /\ db[n].status # "COMPLETED")
        => trim(toLowerCase(db[m].description)) # trim(toLowerCase(db[n].description))

(***************************************************************************)
(* Claims about the pairwise comparator (SpecCmp)                          *)
(***************************************************************************)
BothStrings == str1.type = "string" /\ str2.type = "string"

\* the quick-filter estimate of the two descriptions
Estimate == quickStringComparison(str1.chars, str2.chars)

\* C10: the classifier is invoked only for an estimate in [0.3, 0.9]; below
\* 0.3 the comparator returns 0 and above 0.9 it returns 1, without a call.
C10_ShortCircuits ==
    /\ classifierCalls > 0 =>
          /\ BothStrings
          /\ ~ Greater(Score(3, 10), Estimate)
          /\ ~ Greater(Estimate, Score(9, 10))
    /\ (cpc = "done" /\ BothStrings /\ Greater(Score(3, 10), Estimate)) =>
          (classifierCalls = 0 /\ result = Score(0, 1))
    /\ (cpc = "done" /\ BothStrings /\ Greater(Estimate, Score(9, 10))) =>
          (classifierCalls = 0 /\ result = Score(1, 1))

\* two different strings with an estimate above 0.9 were compared
C10_Witness ==
    /\ cpc = "done"
    /\ BothStrings
    /\ str1 # str2
    /\ Greater(Estimate, Score(9, 10))
    /\ classifierCalls = 0
    /\ result = Score(1, 1)

\* a score is a number of [0, 1] (0/0 is NaN and is none)
InUnit(score) == score[2] > 0 /\ 0 <= score[1] /\ score[1] <= score[2]

\* C11: for two string descriptions compareTaskSimilarity never rejects and
\* resolves with a number of [0, 1]; when the classifier call fails or its
\* answer is no number of [0, 1], it resolves with the quick-filter estimate.
C11_ClassifierFailureRecovered ==
    BothStrings =>
        /\ cpc # "rejected"
        /\ cpc = "done" => InUnit(result)
        /\ (cpc = "done" /\ response \in {"invalid", "error"}) => result = Estimate

\* the classifier call failed for two different strings and the comparator
\* resolved with their estimate, which is neither 0 nor 1
C11_Witness ==
    /\ cpc = "done"
    /\ BothStrings
    /\ str1 # str2
    /\ response = "error"
    /\ result = Estimate
    /\ result[1] > 0
    /\ result[1] < result[2]

(***************************************************************************)
(* Claims about the similarity cache (SpecOverlap)                         *)
(***************************************************************************)
\* the cached score of the pair (a, b), asked for in the order (b, a), is what
\* the anchor step copied to the local map sims
ReadsCached(all, i, sims) ==
    \A j \in (i + 1)..Len(all) :
        getSimilarityCacheKey(all[j].id, all[i].id) \in DOMAIN similarityCache =>
            /\ getSimilarityCacheKey(all[i].id, all[j].id) \in DOMAIN sims
            /\ sims[getSimilarityCacheKey(all[i].id, all[j].id)]
                 = similarityCache[getSimilarityCacheKey(all[j].id, all[i].id)]

\* C12: the cache key of (a, b) is the cache key of (b, a), and an anchor step
\* of either pass reads for its pair the score that is cached for the pair in
\* the opposite order.
C12_SymmetricCacheKey ==
    [][/\ \A a, b \in DOMAIN tasks :
             getSimilarityCacheKey(a, b) = getSimilarityCacheKey(b, a)
       /\ (pc = "anchor" /\ pc' = "batch") => ReadsCached(allTasks, idx, similarities')
       /\ (other.pc = "anchor" /\ other'.pc = "batch")
             => ReadsCached(other.all, other.idx, other'.similarities)]_vars

\* the second pass, holding the tasks in the opposite order, found the score
\* of its first pair in the cache and asks for no comparison
C12_Witness ==
    /\ Len(other.all) > 1
    /\ other.all[1].id > other.all[2].id
    /\ other.pc = "batch"
    /\ other.idx = 1
    /\ other.comparisons = <<>>
    /\ getSimilarityCacheKey(other.all[1].id, other.all[2].id) \in DOMAIN other.similarities

\* C13: a score that is in the similarity cache stays in it, unchanged, also
\* when two passes overlap.
C13_CachedScoreKept ==
    [][\A k \in DOMAIN similarityCache :
          /\ k \in DOMAIN similarityCache'
          /\ similarityCache'[k] = similarityCache[k]]_vars

(***************************************************************************)
(* Claims about the parent's deadline (SpecDeadline)                       *)
(***************************************************************************)
\* the days of the deadlines that are date strings
ValidDays ==
    {t \in 0..(Len(Digits) - 1) :
        \E k \in 1..Len(deadlines) : deadlines[k] \in {ShortDate(t), IsoDate(t)}}

\* C14: getEarliestDeadline returns without an error; its result is null when
\* no deadline is a date string, and otherwise denotes the earliest day among
\* the deadlines that are date strings.
C14_EarliestValidDeadline ==
    earliest.state # "idle" =>
        /\ earliest.state = "returned"
        /\ IF ValidDays = {}
           THEN earliest.value = JsNull
           ELSE /\ earliest.value.type = "string"
                /\ ~ getTime(earliest.value).nan
                /\ getTime(earliest.value).ms \in ValidDays
                /\ \A t \in ValidDays : getTime(earliest.value).ms <= t

\* the earliest day was found behind a null, a string that is no date and a
\* later day
C14_Witness ==
    /\ earliest.state = "returned"
    /\ Len(deadlines) = 3
    /\ deadlines[1] \in {JsNull, JsString(<<"x">>)}
    /\ deadlines[2] = ShortDate(2)
    /\ deadlines[3] = ShortDate(1)
    /\ earliest.value = IsoDate(1)

(***************************************************************************)
(* Claims about the life of a task (SpecLife)                              *)
(***************************************************************************)
\* C15: a task whose status is COMPLETED keeps that status.
C15_CompletedIsTerminal ==
    [][\A id \in DOMAIN tasks :
          tasks[id].status = "COMPLETED" =>
              (id \in DOMAIN tasks' /\ tasks'[id].status = "COMPLETED")]_vars

\* C17: every task of the index is stored under its own id.
C17_IdImmutable == \A k \in DOMAIN tasks : tasks[k].id = k

\* C18: two extracted tasks of one thread with the same deadline and priority
\* and descriptions equal after lower-casing and whitespace collapsing, both
\* created, are stored under the same id.
C18_DeterministicIds ==
    \A i, j \in 1..Len(extracted) :
        (/\ extracted[i].action = "created"
         /\ extracted[j].action = "created"
         /\ extracted[i].task.threadId = extracted[j].task.threadId
         /\ extracted[i].task.deadline = extracted[j].task.deadline
         /\ extracted[i].task.priority = extracted[j].task.priority
         /\ collapseSpaces(trim(toLowerCase(extracted[i].task.description)))
              = collapseSpaces(trim(toLowerCase(extracted[j].task.description))))
        => extracted[i].storedId = extracted[j].storedId

(***************************************************************************)
(* Claims about completed tasks in optimizeTaskList (SpecDone)             *)
(***************************************************************************)
\* C16: a task that was COMPLETED when optimizeTaskList started keeps its
\* priority, its parentTaskId and its isSubtask.
C16_CompletedUntouched ==
    \A id \in DOMAIN before :
        before[id].status = "COMPLETED" =>
            /\ tasks[id].priority = before[id].priority
            /\ tasks[id].parentTaskId = before[id].parentTaskId
            /\ tasks[id].isSubtask = before[id].isSubtask

(***************************************************************************)
(* Claims about the batches of comparator calls (SpecBatch)                *)
(***************************************************************************)
\* the comparator calls of the pass that have not completed
Outstanding(cs) == {m \in 1..Len(cs) : cs[m].state = "pending"}

\* C19: at most 5 comparator calls of a pass are outstanding, and a call is
\* started only when no call of the pass is outstanding.
C19_BoundedBatches ==
    [][/\ Cardinality(Outstanding(calls')) <= 5
       /\ (\E m \in Outstanding(calls') : m \notin Outstanding(calls))
             => Outstanding(calls) = {}]_vars

\* the second batch of an anchor is in flight: the five scores of its first
\* batch are stored and a call of the sixth comparison is outstanding
C19_Witness ==
    /\ pc = "await"
    /\ Len(comparisons) > 5
    /\ offset = 6
    /\ Outstanding(calls) # {}
    /\ \A m \in 1..5 : comparisons[m].cacheKey \in DOMAIN similarities
    /\ calls[1].cacheKey = comparisons[6].cacheKey

(***************************************************************************)
(* Claims about clustering without the classifier (SpecFallback)           *)
(***************************************************************************)
\* the quick-filter estimate of the descriptions of the tasks at i and j
EstimateOf(i, j) ==
    quickStringComparison(allTasks[i].description, allTasks[j].description)

\* the classifier was called for the pair of the tasks at i and j: their
\* estimate is neither below 0.3 nor above 0.9
ClassifierCalled(i, j) ==
    /\ i # j
    /\ ~ belowLow(EstimateOf(i, j))
    /\ ~ aboveHigh(EstimateOf(i, j))

\* C20 as claimed: when the classifier was called during the pass and every
\* call failed, the pass returns one singleton cluster per task, whatever the
\* descriptions are.
C20_AllSingletons ==
    (pc = "grouped" /\ \E i, j \in 1..Len(allTasks) : ClassifierCalled(i, j))
        => groups = [k \in 1..Len(allTasks) |-> <<k>>]

\* C20 as amended: with every classifier call failing and no score cached,
\* every task is in exactly one cluster, and a cluster holds its anchor and
\* the later free tasks whose quick-filter estimate with the anchor is above
\* 0.8; so the clusters are all singletons when no estimate is above 0.8.
C20_EstimateClusters ==
    pc = "grouped" =>
        /\ Free(Len(groups) + 1) = {}
        /\ \A c \in 1..Len(groups) :
              /\ Free(c) # {}
              /\ groups[c][1] = Earliest(Free(c))
              /\ Tail(groups[c]) =
                    SelectSeq(Positions(allTasks),
                        LAMBDA m :
                            /\ m > Earliest(Free(c))
                            /\ m \in Free(c)
                            /\ Greater(EstimateOf(Earliest(Free(c)), m), Score(8, 10)))
        /\ (\A i, j \in 1..Len(allTasks) : ~ Greater(EstimateOf(i, j), Score(8, 10)) \/ i = j)
              => groups = [k \in 1..Len(allTasks) |-> <<k>>]

\* a cluster of two was returned for descriptions whose estimate is above 0.8
\* and not above 0.9, so that the classifier was called for them and failed;
\* a third task stayed alone
C20_Witness ==
    /\ pc = "grouped"
    /\ Len(allTasks) = 3
    /\ Len(groups) = 2
    /\ \E c \in 1..Len(groups) :
          /\ Len(groups[c]) = 2
          /\ Greater(EstimateOf(groups[c][1], groups[c][2]), Score(8, 10))
          /\ ~ Greater(EstimateOf(groups[c][1], groups[c][2]), Score(9, 10))

(***************************************************************************)
(* Claims about parents and subtasks (SpecGroup)                           *)
(***************************************************************************)
\* C21: no task of the index is both a subtask and a parent.
C21_NeverSubtaskAndParent ==
    \A id \in DOMAIN tasks : ~ (tasks[id].isSubtask /\ tasks[id].isParent)

\* a second run of optimizeTaskList has given tasks that were subtasks of the
\* parent of the first run a second parent
C21_Witness ==
    /\ pc = "done"
    /\ run = 2
    /\ \E p1, p2 \in DOMAIN tasks :
          /\ p1 # p2
          /\ tasks[p1].isParent
          /\ tasks[p2].isParent
          /\ \E c \in DOMAIN tasks :
                /\ tasks[c].isSubtask
                /\ tasks[c].parentTaskId = p2
                /\ Includes(tasks[p1].childTaskIds, c)

(***************************************************************************)
(* Claims about the public operations (SpecApi)                            *)
(***************************************************************************)
\* C22: updateTask and updateTaskStatus called with an id that is neither in
\* the index nor in the store fail with a not-found error, leave the index
\* unchanged and emit no event.
C22_UnknownIdNotFound ==
    (lastCall.op \in {"updateTask", "updateTaskStatus"} /\ ~ lastCall.known) =>
        /\ lastCall.outcome = "not found"
        /\ tasks = lastCall.index
        /\ Len(events) = lastCall.nEvents

\* updateTask was called with an unknown id while the index held a task and
\* events had been emitted
C22_Witness ==
    /\ lastCall.op = "updateTask"
    /\ ~ lastCall.known
    /\ lastCall.outcome = "not found"
    /\ DOMAIN tasks # {}
    /\ Len(events) > 0

\* C23: every successful createTask emits exactly one task:created event
\* carrying the stored task, and every successful updateTask or
\* updateTaskStatus emits exactly one task:updated event whose payload holds
\* the updated task and oldStatus, the status before the mutation.
C23_EventsCarryOldStatus ==
    (lastCall.op # "none" /\ lastCall.outcome = "returned") =>
        /\ Len(events) = lastCall.nEvents + 1
        /\ LET e == events[Len(events)]
           IN  IF lastCall.op = "createTask"
               THEN /\ e.name = "task:created"
                    /\ e.payload = tasks[lastCall.taskId]
               ELSE /\ e.name = "task:updated"
                    /\ e.payload.task = tasks[lastCall.taskId]
                    /\ "oldStatus" \in DOMAIN e.payload
                    /\ e.payload.oldStatus = lastCall.task.status

\* C24: a completion message (description, comment, deadline) is sent to the
\* email of the task exactly once by an updateTaskStatus call that moves a task
\* of an email from another status to COMPLETED, and none by a call on a task
\* that is COMPLETED already.
C24_OneMailPerCompletion ==
    (/\ lastCall.op = "updateTaskStatus"
     /\ lastCall.outcome = "returned"
     /\ lastCall.data.status = "COMPLETED"
     /\ lastCall.task.emailId # NoEmail) =>
        IF lastCall.task.status # "COMPLETED"
        THEN /\ Len(mails) = lastCall.nMails + 1
             /\ mails[Len(mails)] =
                    completionMessage(tasks[lastCall.taskId], lastCall.data.comment)
        ELSE Len(mails) = lastCall.nMails

\* C26: createTask called with task data that has no description or no
\* priority fails, stores nothing and emits no event.
C26_MissingFieldRejected ==
    (/\ lastCall.op = "createTask"
     /\ ~ ({"description", "priority"} \subseteq DOMAIN lastCall.data)) =>
        /\ lastCall.outcome # "returned"
        /\ tasks = lastCall.index
        /\ Len(events) = lastCall.nEvents

(***************************************************************************)
(* Claims about failures and duplicates                                    *)
(***************************************************************************)
\* C25: a failure of one operation on one task does not abort the run of
\* optimizeTaskList: the run never ends rejected, the position from which
\* neither the links of the remaining clusters nor prioritizeTasks are reached.
C25_FailureDoesNotAbort ==
    compareFailed => pc # "rejected"

\* C27: the index never holds two tasks of the same thread that are not
\* COMPLETED and whose descriptions are equal after lower-casing and trimming.
C27_NoDuplicateInIndex ==
    \A id1, id2 \in DOMAIN tasks :
        (/\ id1 # id2
         /\ tasks[id1].threadId = tasks[id2].threadId
         /\ tasks[id1].status # "COMPLETED"
         /\ tasks[id2].status # "COMPLETED") =>
            ~ sameDescription(tasks[id1].description, tasks[id2].description)

(***************************************************************************)
(* Claims about shared prerequisites and dependency chains (SpecPrio)      *)
(***************************************************************************)
\* the positions of the tasks of the batch that name the task at position d
\* as a prerequisite
Dependents(d) ==
    {t \in 1..Len(allTasks) :
        t # d /\ Includes(allTasks[t].dependencies, allTasks[d].description)}

\* the task at position d is named as a prerequisite by several tasks of the
\* batch with different priorities
SharedPrerequisite(d) ==
    \E t1, t2 \in Dependents(d) : allTasks[t1].priority # allTasks[t2].priority

\* C28: the stored priority of a prerequisite named by several tasks of
\* different priorities only moves toward HIGH during the pass, and when the
\* pass returns it is at least as urgent as it was and as each of its
\* dependents is.
C28_SharedPrerequisite ==
    [][(pc = "prioritize" /\ run = 1) =>
          \A d \in 1..Len(allTasks) :
              SharedPrerequisite(d) =>
                  /\ Rank(tasks'[allTasks[d].id].priority)
                         <= Rank(tasks[allTasks[d].id].priority)
                  /\ pc' = "done" =>
                         \A t \in Dependents(d) \cup {d} :
                             Rank(tasks'[allTasks[d].id].priority)
                                 <= Rank(allTasks[t].priority)]_vars

\* C29: for tasks A, B, C of the batch where A depends on B, B depends on C
\* and A is more urgent than both, B and C are stored at least as urgent as A
\* after one pass.
C29_TransitiveEscalation ==
    FirstPassDone =>
        \A a, b, c \in 1..Len(allTasks) :
            (/\ a # b /\ b # c /\ a # c
             /\ Includes(allTasks[a].dependencies, allTasks[b].description)
             /\ Includes(allTasks[b].dependencies, allTasks[c].description)
             /\ Rank(allTasks[a].priority) < Rank(allTasks[b].priority)
             /\ Rank(allTasks[a].priority) < Rank(allTasks[c].priority)) =>
                /\ Rank(tasks[allTasks[b].id].priority) <= Rank(allTasks[a].priority)
                /\ Rank(tasks[allTasks[c].id].priority) <= Rank(allTasks[a].priority)

(***************************************************************************)
(* Claims about the extraction run (SpecExtraction)                        *)
(***************************************************************************)
\* the this.model.invoke calls in flight for the emails 1..k
RECURSIVE InvokedUpTo(_)
InvokedUpTo(k) == IF k = 0 THEN 0 ELSE inbox[k].invoked + InvokedUpTo(k - 1)

\* C30: within one extraction run, at most 5 classifier calls are in flight
\* at any time.
C30_AtMostFiveInFlight == InvokedUpTo(Len(inbox)) <= BATCH_SIZE_tasks

(***************************************************************************)
(* Claims about the pairs given to the comparator (SpecGroup)              *)
(***************************************************************************)
\* the comparator was called for the tasks at positions i and j: the cache,
\* empty at the start, holds a score for the pair
Compared(i, j) ==
    getSimilarityCacheKey(allTasks[i].id, allTasks[j].id) \in DOMAIN similarityCache

\* C31: the comparator is called only for pairs of an anchor that heads a
\* cluster and a later task that has not joined the cluster of an earlier
\* anchor.
C31_OnlyUnassignedCompared ==
    pc = "grouped" =>
        \A i, j \in 1..Len(allTasks) :
            (i < j /\ Compared(i, j)) =>
                /\ \E c \in 1..Len(groups) : groups[c][1] = i
                /\ ~ \E c \in 1..Len(groups) :
                        groups[c][1] < i /\ Includes(groups[c], j)

(***************************************************************************)
(* Claims about the index and the store (SpecApi)                          *)
(***************************************************************************)
\* C32: updateTask and updateTaskStatus called for a task that is in the
\* store and not in the index load it into the index and succeed.
C32_ReadMissReconciled ==
    (/\ lastCall.op \in {"updateTask", "updateTaskStatus"}
     /\ lastCall.known
     /\ lastCall.taskId \notin DOMAIN lastCall.index) =>
        /\ lastCall.outcome = "returned"
        /\ lastCall.taskId \in DOMAIN tasks

(***************************************************************************)
(* Claims about the parents of one run (SpecGroup)                         *)
(***************************************************************************)
\* the index as it was when the run started
IndexAtStart == IF run = 1 THEN before ELSE after1

\* the ids of the tasks the run has created
CreatedByRun == (DOMAIN tasks) \ (DOMAIN IndexAtStart)

\* the ids of the members of cluster c, in order
MemberIds(c) == [m \in 1..Len(groups[c]) |-> allTasks[groups[c][m]].id]

\* the parents the run has created for cluster c
ParentsOf(c) ==
    {id \in CreatedByRun : tasks[id].isParent /\ tasks[id].childTaskIds = MemberIds(c)}

\* C33: when a run of optimizeTaskList has resolved, the tasks it has created
\* are one parent for each cluster of two or more tasks: PENDING, isParent,
\* with the ids of the members in order as childTaskIds; every member of such
\* a cluster is stored as a subtask of that parent, and a singleton cluster has
\* no parent.
C33_OneParentPerCluster ==
    pc = "done" =>
        /\ Cardinality(CreatedByRun) =
               Cardinality({c \in 1..Len(groups) : Len(groups[c]) > 1})
        /\ \A id \in CreatedByRun : tasks[id].isParent /\ tasks[id].status = "PENDING"
        /\ \A c \in 1..Len(groups) :
              IF Len(groups[c]) > 1
              THEN /\ Cardinality(ParentsOf(c)) = 1
                   /\ \A m \in 1..Len(groups[c]) :
                         /\ tasks[MemberIds(c)[m]].isSubtask
                         /\ tasks[MemberIds(c)[m]].parentTaskId \in ParentsOf(c)
              ELSE ParentsOf(c) = {}

\* a run has resolved with a cluster of several tasks and a singleton
C33_Witness ==
    /\ pc = "done"
    /\ \E c \in 1..Len(groups) : Len(groups[c]) > 1
    /\ \E c \in 1..Len(groups) : Len(groups[c]) = 1

(***************************************************************************)
(* Claims about ambiguous dependency strings (SpecPrio)                    *)
(***************************************************************************)
\* the task at position d has the description of an earlier task of the
\* batch: a dependency string never resolves to it first
LaterMatch(d) ==
    \E d0 \in 1..(d - 1) : allTasks[d0].description = allTasks[d].description

\* C34: a task that is named by a dependency string and is not the first task
\* of the batch with that description keeps its priority through the pass.
C34_FirstMatchOnly ==
    FirstPassDone =>
        \A d \in 1..Len(allTasks) :
            (LaterMatch(d) /\ Dependents(d) # {}) =>
                tasks[allTasks[d].id].priority = before[allTasks[d].id].priority

(***************************************************************************)
(* Claims about the clusters as a partition (SpecRepeat)                   *)
(***************************************************************************)
\* the places of the clusters that hold the input element at position k
PlacesOf(k) ==
    {p \in {<<c, m>> : c \in 1..Len(groups), m \in 1..MaxRepeatTasks} :
        p[2] <= Len(groups[p[1]]) /\ groups[p[1]][p[2]] = k}

\* C35: the clusters groupSimilarTasks resolves with hold every input element
\* exactly once, and none is empty, also when an id occurs more than once in
\* the input.
C35_ClustersPartitionInput ==
    pc = "grouped" =>
        /\ \A k \in 1..Len(allTasks) : Cardinality(PlacesOf(k)) = 1
        /\ \A c \in 1..Len(groups) : Len(groups[c]) > 0

(***************************************************************************)
(* Claims about the store following the index (SpecSync)                   *)
(***************************************************************************)
\* every handler started so far has finished
HandlersFinished ==
    /\ Len(events) > 0
    /\ \A k \in 1..Len(hpc) : hpc[k] = "done"

\* C36: once the handlers have finished, every task of the index has a row in
\* the store with its priority, its status and its parentTaskId.
C36_StoreFollowsIndex ==
    HandlersFinished =>
        \A id \in DOMAIN tasks :
            \E m \in 1..Len(db) :
                /\ db[m].id = id
                /\ db[m].priority = tasks[id].priority
                /\ db[m].status = tasks[id].status
                /\ db[m].parent_task_id = tasks[id].parentTaskId

(***************************************************************************)
(* Claims about the extraction results after the run (SpecOpt)             *)
(***************************************************************************)
\* C37: when optimizeTaskList has resolved, every task object of the
\* extraction results has the priority and the parentTaskId of the task stored
\* under its id.
C37_ResultsMatchIndex ==
    pc = "done" =>
        \A k \in 1..Len(allTasks) :
            /\ allTasks[k].priority = tasks[allTasks[k].id].priority
            /\ allTasks[k].parentTaskId = tasks[allTasks[k].id].parentTaskId

(***************************************************************************)
(* Claims about email processing on command (SpecCommands)                 *)
(***************************************************************************)
\* the runs of processEmails in progress
InProgress == {r \in 1..Len(runs) : runs[r] = "running"}

\* C38: at most one run of processEmails started by startEmailProcessing is in
\* progress, and isProcessingEmails() is true exactly while a run is in
\* progress: false again once the run has ended, normally or with an error.
C38_OneRunAndFlagFollows ==
    /\ Cardinality(InProgress) <= 1
    /\ isProcessingEmails <=> InProgress # {}

====
